---- MODULE Spec2Model ----
(***************************************************************************)
(* Edit-mutation and undo/redo engine of kakukuma: the cell grid, the      *)
(* drawing tools, symmetry expansion, the in-memory History of the         *)
(* interactive session and the persisted operation log of the CLI.         *)
(***************************************************************************)
EXTENDS Integers, Sequences, FiniteSets, TLC

(***************************************************************************)
(* Bounds of the model                                                     *)
(***************************************************************************)
\* Grid created by the session / by `new` (the program allows 8..128).
GridW == 2
GridH == 2
\* Interactive session: tool applications and resizes per run.
MaxOps == 3
\* CLI: draw invocations per run, and the largest --count.
MaxDraws == 3
MaxCount == 2
\* Long runs: commits / appends past the 256-entry caps.
MaxOver == 1
\* Files on disk: invocations per run, invocations killed, log lines damaged.
MaxRuns == 3
MaxCrashes == 1
MaxCorrupt == 1
\* Lines: the largest coordinate of an endpoint near the grid.
MaxCoord == 2
\* Bits of a usize / isize (the program's are 64 bits wide).
UsizeBits == 7

\* Tools: the widest grid handed to a tool.
MaxToolW == 33

\* Program constants.
VISITED_DIM == 32
MAX_HISTORY == 256
MAX_LOG_ENTRIES == 256

\* Option<T>: None is the empty set, Some(v) is {v}.
None == {}
Some(v) == {v}
Unwrap(o) == CHOOSE v \in o : TRUE

\* Result<T, E>, and the outcomes of a call that does not return.
Ok(v) == [ok |-> TRUE, value |-> v]
Err(msg) == [ok |-> FALSE, value |-> msg]

\* A local binding evaluated once: Op applied to the value v.
With(v, Op(_)) == Op(v)

(***************************************************************************)
(* Cells and colours                                                       *)
(***************************************************************************)
\* Rgb { r, g, b }.
Red == <<255, 0, 0>>
FULL == "FULL"

\* Cell::default(): blank glyph, no colours.
EmptyCell == [ch |-> " ", fg |-> None, bg |-> None]

\* Cell { ch, fg: Option<Rgb>, bg: Option<Rgb> }.
MkCell(ch, fg, bg) == [ch |-> ch, fg |-> fg, bg |-> bg]

HexDigits == <<"0", "1", "2", "3", "4", "5", "6", "7",
               "8", "9", "A", "B", "C", "D", "E", "F">>

HexVal(d) == (CHOOSE i \in 1..16 : HexDigits[i] = d) - 1

\* Rgb::name(): "#RRGGBB", as a sequence of characters.
RgbName(c) ==
    <<"#">> \o <<HexDigits[(c[1] \div 16) + 1], HexDigits[(c[1] % 16) + 1],
                 HexDigits[(c[2] \div 16) + 1], HexDigits[(c[2] % 16) + 1],
                 HexDigits[(c[3] \div 16) + 1], HexDigits[(c[3] % 16) + 1]>>

\* parse_hex_color: None unless the text is '#' and six hex digits.
ParseHexColor(s) ==
    IF /\ Len(s) = 7
       /\ s[1] = "#"
       /\ \A i \in 2..7 : \E k \in 1..16 : HexDigits[k] = s[i]
    THEN Some(<<HexVal(s[2]) * 16 + HexVal(s[3]),
                HexVal(s[4]) * 16 + HexVal(s[5]),
                HexVal(s[6]) * 16 + HexVal(s[7])>>)
    ELSE None

(***************************************************************************)
(* Canvas                                                                  *)
(***************************************************************************)
Coords(w, h) == (0..(w - 1)) \X (0..(h - 1))

NewCanvas(w, h) ==
    [width |-> w, height |-> h, cells |-> [p \in Coords(w, h) |-> EmptyCell]]

CanvasGet(c, x, y) ==
    IF x < c.width /\ y < c.height THEN Some(c.cells[<<x, y>>]) ELSE None

CanvasSet(c, x, y, cell) ==
    IF x < c.width /\ y < c.height
    THEN [c EXCEPT !.cells[<<x, y>>] = cell]
    ELSE c

\* Canvas::replace: the grid becomes the given cells and dimensions.
CanvasReplace(c, cells, w, h) == [width |-> w, height |-> h, cells |-> cells]

\* Canvas::resize: cells of the overlapping region kept, new area empty.
CanvasResize(c, w, h) ==
    [width |-> w, height |-> h,
     cells |-> [p \in Coords(w, h) |->
                  IF p[1] < c.width /\ p[2] < c.height
                  THEN c.cells[p] ELSE EmptyCell]]

(***************************************************************************)
(* Drawing tools                                                           *)
(***************************************************************************)
Mutation(x, y, old, new) == [x |-> x, y |-> y, old |-> old, new |-> new]

pencil(c, x, y, ch, fg, bg) ==
    LET got == CanvasGet(c, x, y)
        new == MkCell(ch, fg, bg)
    IN IF got # None /\ Unwrap(got) # new
       THEN <<Mutation(x, y, Unwrap(got), new)>> ELSE <<>>

eraser(c, x, y) ==
    LET got == CanvasGet(c, x, y)
        new == EmptyCell
    IN IF got # None /\ Unwrap(got) # new
       THEN <<Mutation(x, y, Unwrap(got), new)>> ELSE <<>>

Abs(n) == IF n < 0 THEN -n ELSE n
Min(a, b) == IF a < b THEN a ELSE b
Max(a, b) == IF a > b THEN a ELSE b

\* Machine integers: usize is 0 .. USIZE_MAX, isize is ISIZE_MIN .. ISIZE_MAX.
USIZE_MAX == 2 ^ UsizeBits - 1
ISIZE_MAX == 2 ^ (UsizeBits - 1) - 1
ISIZE_MIN == -(2 ^ (UsizeBits - 1))

\* `v as isize` of a usize, `v as usize` of an isize: the same bits.
as_isize(v) == IF v > ISIZE_MAX THEN v - 2 ^ UsizeBits ELSE v
as_usize(v) == v % (2 ^ UsizeBits)

\* An isize result out of range: the operation panics in a build with
\* overflow checks, and wraps in a build without them.
Overflows(v) == v < ISIZE_MIN \/ v > ISIZE_MAX

\* isize::abs.
isize_abs(v) == IF v < 0 THEN -v ELSE v

\* The loop of bresenham_line: the point is pushed, then the error term
\* moves x, y or both by one step until the end point has been pushed.
\* The call is followed up to its first arithmetic overflow: there it
\* panics or goes on with wrapped values, Err("overflow") either way.
RECURSIVE bresenham_loop(_, _, _, _, _, _, _, _, _, _)
bresenham_loop(x0, y0, x1, y1, dx, dy, sx, sy, err, points) ==
    LET pushed == Append(points, <<as_usize(x0), as_usize(y0)>>)
        e2 == 2 * err
        errx == IF e2 >= dy THEN err + dy ELSE err
        nx == IF e2 >= dy THEN x0 + sx ELSE x0
        erry == IF e2 <= dx THEN errx + dx ELSE errx
        ny == IF e2 <= dx THEN y0 + sy ELSE y0
    IN IF x0 = x1 /\ y0 = y1 THEN Ok(pushed)
       ELSE IF Overflows(e2) \/ Overflows(errx) \/ Overflows(nx)
                  \/ Overflows(erry) \/ Overflows(ny)
       THEN Err("overflow")
       ELSE bresenham_loop(nx, ny, x1, y1, dx, dy, sx, sy, erry, pushed)

\* tools::bresenham_line: the points from (x0, y0) to (x1, y1), in order.
bresenham_line(x0, y0, x1, y1) ==
    LET ix0 == as_isize(x0)
        iy0 == as_isize(y0)
        ix1 == as_isize(x1)
        iy1 == as_isize(y1)
        dx == isize_abs(ix1 - ix0)
        dy == -isize_abs(iy1 - iy0)
        sx == IF ix0 < ix1 THEN 1 ELSE -1
        sy == IF iy0 < iy1 THEN 1 ELSE -1
    IN IF Overflows(ix1 - ix0) \/ Overflows(iy1 - iy0)
              \/ Overflows(dx) \/ Overflows(dy) \/ Overflows(dx + dy)
       THEN Err("overflow")
       ELSE bresenham_loop(ix0, iy0, ix1, iy1, dx, dy, sx, sy, dx + dy, <<>>)

\* The mutations of painting `new` on the points in order: a point outside
\* the grid is skipped, and so is a cell that equals `new` already.
paint(c, points, new) ==
    LET hit == SelectSeq(points, LAMBDA p :
                   /\ CanvasGet(c, p[1], p[2]) # None
                   /\ Unwrap(CanvasGet(c, p[1], p[2])) # new)
    IN [i \in 1..Len(hit) |->
           Mutation(hit[i][1], hit[i][2], c.cells[hit[i]], new)]

\* tools::line.
line(c, x0, y0, x1, y1, ch, fg, bg) ==
    LET points == bresenham_line(x0, y0, x1, y1)
    IN IF points.ok THEN Ok(paint(c, points.value, MkCell(ch, fg, bg)))
       ELSE points

\* The cells tools::rectangle covers, row by row, between the corners
\* (lx, ly) and (hx, hy).
box(lx, ly, hx, hy, filled) ==
    LET w == hx - lx + 1
        h == hy - ly + 1
        all == [k \in 1..(IF w > 0 /\ h > 0 THEN w * h ELSE 0) |->
                   <<lx + ((k - 1) % w), ly + ((k - 1) \div w)>>]
    IN SelectSeq(all, LAMBDA p :
           filled \/ p[1] = lx \/ p[1] = hx \/ p[2] = ly \/ p[2] = hy)

\* A variant of rectangle that takes the first corner for the low one.
rectangle_unordered(c, x0, y0, x1, y1, ch, fg, bg, filled) ==
    paint(c, box(x0, y0, x1, y1, filled), MkCell(ch, fg, bg))

\* tools::rectangle.
rectangle(c, x0, y0, x1, y1, ch, fg, bg, filled) ==
    LET min_x == Min(x0, x1)
        max_x == Max(x0, x1)
        min_y == Min(y0, y1)
        max_y == Max(y0, y1)
    IN paint(c, box(min_x, min_y, max_x, max_y, filled), MkCell(ch, fg, bg))

\* tools::flood_fill up to its loop: the mutations returned at once (seed
\* outside the grid, or seed equal to the new cell already), or the loop's
\* state with the seed on the stack.
flood_fill_begin(c, start_x, start_y, ch, fg, bg) ==
    LET got == CanvasGet(c, start_x, start_y)
        new == MkCell(ch, fg, bg)
    IN IF got = None \/ Unwrap(got) = new
       THEN [returned |-> Some(<<>>), loop |-> None]
       ELSE [returned |-> None,
             loop |-> Some([target |-> Unwrap(got), new |-> new,
                            mutations |-> <<>>, visited |-> {},
                            stack |-> <<<<start_x, start_y>>>>])]

\* The neighbours flood_fill pushes after it fills (x, y).
flood_fill_push(stack, x, y) ==
    stack \o (IF x > 0 THEN <<<<x - 1, y>>>> ELSE <<>>)
          \o (IF x < VISITED_DIM - 1 THEN <<<<x + 1, y>>>> ELSE <<>>)
          \o (IF y > 0 THEN <<<<x, y - 1>>>> ELSE <<>>)
          \o (IF y < VISITED_DIM - 1 THEN <<<<x, y + 1>>>> ELSE <<>>)

\* A variant of flood_fill's loop body that does not compare the cell with
\* the target.
flood_fill_pop_any(c, st) ==
    LET p == st.stack[Len(st.stack)]
        rest == SubSeq(st.stack, 1, Len(st.stack) - 1)
        x == p[1]
        y == p[2]
    IN IF x >= VISITED_DIM \/ y >= VISITED_DIM \/ p \in st.visited
              \/ CanvasGet(c, x, y) = None
       THEN [st EXCEPT !.stack = rest]
       ELSE [st EXCEPT !.visited = @ \cup {p},
                       !.mutations = Append(@, Mutation(x, y, st.target, st.new)),
                       !.stack = flood_fill_push(rest, x, y)]

\* One turn of flood_fill's loop: a point is popped; it is dropped if it
\* lies outside the visited bitmap, has been visited, lies outside the
\* grid or does not hold the target cell; else it is marked, filled, and
\* its neighbours are pushed.
flood_fill_pop(c, st) ==
    LET p == st.stack[Len(st.stack)]
        rest == SubSeq(st.stack, 1, Len(st.stack) - 1)
        x == p[1]
        y == p[2]
    IN IF x >= VISITED_DIM \/ y >= VISITED_DIM \/ p \in st.visited
              \/ CanvasGet(c, x, y) = None
              \/ Unwrap(CanvasGet(c, x, y)) # st.target
       THEN [st EXCEPT !.stack = rest]
       ELSE [st EXCEPT !.visited = @ \cup {p},
                       !.mutations = Append(@, Mutation(x, y, st.target, st.new)),
                       !.stack = flood_fill_push(rest, x, y)]

RECURSIVE flood_fill_loop(_, _)
\* flood_fill's loop, run until the stack is empty.
flood_fill_loop(c, st) ==
    IF st.stack = <<>> THEN st.mutations
    ELSE flood_fill_loop(c, flood_fill_pop(c, st))

\* tools::flood_fill, run to its end.
flood_fill(c, start_x, start_y, ch, fg, bg) ==
    LET begun == flood_fill_begin(c, start_x, start_y, ch, fg, bg)
    IN IF begun.returned # None THEN Unwrap(begun.returned)
       ELSE flood_fill_loop(c, Unwrap(begun.loop))

(***************************************************************************)
(* Symmetry expansion                                                      *)
(***************************************************************************)
SymmetryModes == {"Off", "Horizontal", "Vertical", "Quad"}

\* The coordinates one mutation expands to: itself and its mirrors.
MirrorPoints(x, y, mode, w, h) ==
    LET mx == w - 1 - x
        my == h - 1 - y
    IN CASE mode = "Off" -> <<<<x, y>>>>
         [] mode = "Horizontal" -> <<<<x, y>>, <<mx, y>>>>
         [] mode = "Vertical" -> <<<<x, y>>, <<x, my>>>>
         [] OTHER -> <<<<x, y>>, <<mx, y>>, <<x, my>>, <<mx, my>>>>

RECURSIVE ExpandOne(_, _, _, _)
\* Append m's copies at the points pts[i..] to acc, skipping coordinates
\* acc already holds. The copy is a clone of m moved to the mirrored point.
ExpandOne(m, pts, i, acc) ==
    IF i > Len(pts) THEN acc
    ELSE LET p == pts[i]
             dup == \E k \in 1..Len(acc) : acc[k].x = p[1] /\ acc[k].y = p[2]
         IN ExpandOne(m, pts, i + 1,
                      IF dup THEN acc
                      ELSE Append(acc, [m EXCEPT !.x = p[1], !.y = p[2]]))

RECURSIVE ExpandAll(_, _, _, _, _, _)
ExpandAll(muts, i, mode, w, h, acc) ==
    IF i > Len(muts) THEN acc
    ELSE ExpandAll(muts, i + 1, mode, w, h,
                   ExpandOne(muts[i],
                             MirrorPoints(muts[i].x, muts[i].y, mode, w, h),
                             1, acc))

apply_symmetry(muts, mode, w, h) == ExpandAll(muts, 1, mode, w, h, <<>>)

(***************************************************************************)
(* In-memory History                                                       *)
(***************************************************************************)
CellChange(muts) == [kind |-> "CellChange", mutations |-> muts]

CanvasSnapshot(oc, ow, oh, nc, nw, nh) ==
    [kind |-> "CanvasSnapshot", old_cells |-> oc, old_w |-> ow, old_h |-> oh,
     new_cells |-> nc, new_w |-> nw, new_h |-> nh]

NewHistory == [undo_stack |-> <<>>, redo_stack |-> <<>>, pending |-> None]

\* A variant of commit that takes an empty CellChange too.
commit_empty_too(h, action) ==
    LET pushed == Append(h.undo_stack, action)
    IN [h EXCEPT !.redo_stack = <<>>,
                 !.undo_stack = IF Len(pushed) > MAX_HISTORY
                                THEN Tail(pushed) ELSE pushed]

\* A variant of commit that never discards an action.
commit_uncapped(h, action) ==
    IF action.kind = "CellChange" /\ action.mutations = <<>> THEN h
    ELSE [h EXCEPT !.redo_stack = <<>>,
                   !.undo_stack = Append(h.undo_stack, action)]

\* A variant of commit that keeps the redo stack.
commit_keeping_redo(h, action) ==
    IF action.kind = "CellChange" /\ action.mutations = <<>> THEN h
    ELSE LET pushed == Append(h.undo_stack, action)
         IN [h EXCEPT !.undo_stack = IF Len(pushed) > MAX_HISTORY
                                     THEN Tail(pushed) ELSE pushed]

commit(h, action) ==
    IF action.kind = "CellChange" /\ action.mutations = <<>> THEN h
    ELSE LET pushed == Append(h.undo_stack, action)
         IN [h EXCEPT !.redo_stack = <<>>,
                      !.undo_stack = IF Len(pushed) > MAX_HISTORY
                                     THEN Tail(pushed) ELSE pushed]

\* A variant of end_stroke that commits only the stroke's first mutation.
end_stroke_first_only(h) ==
    IF h.pending # None
    THEN IF Unwrap(h.pending) # <<>>
         THEN commit([h EXCEPT !.pending = None],
                     CellChange(<<Unwrap(h.pending)[1]>>))
         ELSE [h EXCEPT !.pending = None]
    ELSE h

end_stroke(h) ==
    IF h.pending # None
    THEN IF Unwrap(h.pending) # <<>>
         THEN commit([h EXCEPT !.pending = None], CellChange(Unwrap(h.pending)))
         ELSE [h EXCEPT !.pending = None]
    ELSE h

\* A variant of begin_stroke that drops a stroke still pending.
begin_stroke_dropping(h) == [h EXCEPT !.pending = Some(<<>>)]

begin_stroke(h) ==
    LET closed == IF h.pending # None THEN end_stroke(h) ELSE h
    IN [closed EXCEPT !.pending = Some(<<>>)]

push_mutation(h, m) ==
    IF h.pending # None
    THEN [h EXCEPT !.pending = Some(Append(Unwrap(h.pending), m))]
    ELSE commit(h, CellChange(<<m>>))

\* A variant of ApplyOld that restores the last mutation only.
ApplyOld_last_only(c, muts, i) ==
    IF i = 0 THEN c
    ELSE CanvasSet(c, muts[i].x, muts[i].y, muts[i].old)

\* A variant of ApplyOld that restores the mutations first to last.
ApplyOld_forward(c, muts, i) ==
    LET step[j \in 0..i] ==
            IF j = 0 THEN c
            ELSE CanvasSet(step[j - 1], muts[j].x, muts[j].y, muts[j].old)
    IN step[i]

RECURSIVE ApplyOld(_, _, _)
\* canvas.set(m.x, m.y, m.old) for mutations i, i-1, .., 1.
ApplyOld(c, muts, i) ==
    IF i = 0 THEN c
    ELSE ApplyOld(CanvasSet(c, muts[i].x, muts[i].y, muts[i].old), muts, i - 1)

RECURSIVE ApplyNew(_, _, _)
\* canvas.set(m.x, m.y, m.new) for mutations i, i+1, .., Len.
ApplyNew(c, muts, i) ==
    IF i > Len(muts) THEN c
    ELSE ApplyNew(CanvasSet(c, muts[i].x, muts[i].y, muts[i].new), muts, i + 1)

Front(s) == SubSeq(s, 1, Len(s) - 1)
Last(s) == s[Len(s)]

\* History::undo: the history, the canvas and the returned flag.
undo(h, c) ==
    IF h.undo_stack # <<>>
    THEN LET action == Last(h.undo_stack)
         IN [history |-> [h EXCEPT !.undo_stack = Front(h.undo_stack),
                                   !.redo_stack = Append(h.redo_stack, action)],
             canvas |-> IF action.kind = "CellChange"
                        THEN ApplyOld(c, action.mutations, Len(action.mutations))
                        ELSE CanvasReplace(c, action.old_cells,
                                           action.old_w, action.old_h),
             ret |-> TRUE]
    ELSE [history |-> h, canvas |-> c, ret |-> FALSE]

\* A variant of redo that leaves the action on the redo stack as well.
redo_keeping(h, c) ==
    IF h.redo_stack # <<>>
    THEN LET action == Last(h.redo_stack)
         IN [history |-> [h EXCEPT !.undo_stack = Append(h.undo_stack, action)],
             canvas |-> IF action.kind = "CellChange"
                        THEN ApplyNew(c, action.mutations, 1)
                        ELSE CanvasReplace(c, action.new_cells,
                                           action.new_w, action.new_h),
             ret |-> TRUE]
    ELSE [history |-> h, canvas |-> c, ret |-> FALSE]

\* History::redo.
redo(h, c) ==
    IF h.redo_stack # <<>>
    THEN LET action == Last(h.redo_stack)
         IN [history |-> [h EXCEPT !.redo_stack = Front(h.redo_stack),
                                   !.undo_stack = Append(h.undo_stack, action)],
             canvas |-> IF action.kind = "CellChange"
                        THEN ApplyNew(c, action.mutations, 1)
                        ELSE CanvasReplace(c, action.new_cells,
                                           action.new_w, action.new_h),
             ret |-> TRUE]
    ELSE [history |-> h, canvas |-> c, ret |-> FALSE]

(***************************************************************************)
(* Persistent operation log (oplog)                                        *)
(***************************************************************************)
\* LogCell::from_cell / LogCell::to_cell: colours as "#RRGGBB" text.
LogCell_from_cell(cell) ==
    [ch |-> cell.ch,
     fg |-> IF cell.fg = None THEN None ELSE Some(RgbName(Unwrap(cell.fg))),
     bg |-> IF cell.bg = None THEN None ELSE Some(RgbName(Unwrap(cell.bg)))]

LogCell_to_cell(lc) ==
    [ch |-> lc.ch,
     fg |-> IF lc.fg = None THEN None ELSE ParseHexColor(Unwrap(lc.fg)),
     bg |-> IF lc.bg = None THEN None ELSE ParseHexColor(Unwrap(lc.bg))]

LogMutation_from_cell_mutation(m) ==
    [x |-> m.x, y |-> m.y,
     old |-> LogCell_from_cell(m.old), new |-> LogCell_from_cell(m.new)]

make_entry(now, command, muts) ==
    [timestamp |-> now, command |-> command,
     mutations |-> [i \in 1..Len(muts) |-> LogMutation_from_cell_mutation(muts[i])]]

LogHeader(pointer, total) == [pointer |-> pointer, total |-> total]

\* One line of the log file, by what serde_json::from_str makes of it: a
\* LogHeader, a LogEntry (neither parses as the other: each needs its own
\* fields), or text that parses as neither; a blank line is skipped unparsed.
HeaderLine(header) == [kind |-> "header", header |-> header]
EntryLine(entry) == [kind |-> "entry", entry |-> entry]
Malformed == [kind |-> "malformed"]
Blank == [kind |-> "blank"]

\* A file at a path: absent, or its lines.
NoFile == [exists |-> FALSE, lines |-> <<>>]
File(lines) == [exists |-> TRUE, lines |-> lines]


\* The lines write_raw writes: the header line, then one line per entry.
LogLines(header, entries) ==
    <<HeaderLine(header)>> \o [i \in 1..Len(entries) |-> EntryLine(entries[i])]

\* oplog::write_raw, run to its end.
write_raw(header, entries) == File(LogLines(header, entries))

init_log == File(<<HeaderLine(LogHeader(0, 0))>>)

\* The entry lines that parse, in file order; blank and malformed lines are
\* skipped.
ParsedEntries(lines) ==
    LET kept == SelectSeq(lines, LAMBDA l : l.kind = "entry")
    IN [i \in 1..Len(kept) |-> kept[i].entry]

\* A variant of read_raw that takes a first line that is no header for the
\* header of an empty log.
read_raw_lenient(file) ==
    IF ~file.exists \/ file.lines = <<>>
    THEN Ok([header |-> LogHeader(0, 0), entries |-> <<>>])
    ELSE Ok([header |-> IF Head(file.lines).kind # "header"
                        THEN LogHeader(0, 0) ELSE Head(file.lines).header,
             entries |-> ParsedEntries(Tail(file.lines))])

\* oplog::read_raw: no file or no first line reads as an empty log; a first
\* line that is no header is an InvalidData error.
read_raw(file) ==
    IF ~file.exists \/ file.lines = <<>>
    THEN Ok([header |-> LogHeader(0, 0), entries |-> <<>>])
    ELSE IF Head(file.lines).kind # "header"
    THEN Err("InvalidData")
    ELSE Ok([header |-> Head(file.lines).header,
             entries |-> ParsedEntries(Tail(file.lines))])

\* What a reader of a well-formed log gets: its header and entries.
Log(file) == read_raw(file).value

\* oplog::read_log.
read_log(file) == read_raw(file)

\* oplog::active_entries.
active_entries(file) ==
    LET read == read_raw(file)
    IN IF ~read.ok THEN read
       ELSE LET log == read.value
                n == IF log.header.pointer < Len(log.entries)
                     THEN log.header.pointer ELSE Len(log.entries)
            IN Ok(SubSeq(log.entries, 1, n))

\* A variant of append that never prunes.
append_unpruned(file, entry) ==
    LET read == read_raw(file)
        log == read.value
        truncated == SubSeq(log.entries, 1,
                            IF log.header.pointer < Len(log.entries)
                            THEN log.header.pointer ELSE Len(log.entries))
        pushed == Append(truncated, entry)
    IN IF ~read.ok THEN [file |-> file, result |-> read]
       ELSE [file |-> write_raw(LogHeader(Len(pushed), Len(pushed)), pushed),
             result |-> Ok(<<>>)]

\* A variant of append that keeps the undone entries.
append_keeping_undone(file, entry) ==
    LET read == read_raw(file)
        log == read.value
        pushed == Append(log.entries, entry)
        excess == Len(pushed) - MAX_LOG_ENTRIES
        pruned == IF Len(pushed) > MAX_LOG_ENTRIES
                  THEN SubSeq(pushed, excess + 1, Len(pushed)) ELSE pushed
    IN IF ~read.ok THEN [file |-> file, result |-> read]
       ELSE [file |-> write_raw(LogHeader(Len(pruned), Len(pruned)), pruned),
             result |-> Ok(<<>>)]

\* oplog::append: the file afterwards and the result.
append(file, entry) ==
    With(read_raw(file), LAMBDA read :
    LET log == read.value
        truncated == SubSeq(log.entries, 1,
                            IF log.header.pointer < Len(log.entries)
                            THEN log.header.pointer ELSE Len(log.entries))
        pushed == Append(truncated, entry)
        excess == Len(pushed) - MAX_LOG_ENTRIES
        pruned == IF Len(pushed) > MAX_LOG_ENTRIES
                  THEN SubSeq(pushed, excess + 1, Len(pushed)) ELSE pushed
    IN IF ~read.ok THEN [file |-> file, result |-> read]
       ELSE [file |-> write_raw(LogHeader(Len(pruned), Len(pruned)), pruned),
             result |-> Ok(<<>>)])

\* A variant of pop_for_undo that moves the pointer by count, however
\* few entries are applied.
pop_for_undo_unclamped(file, count) ==
    LET read == read_raw(file)
        log == read.value
        pointer == log.header.pointer
        new_pointer == pointer - count
    IN IF ~read.ok THEN [file |-> file, result |-> read]
       ELSE IF pointer = 0
       THEN [file |-> file, result |-> Err("Nothing to undo")]
       ELSE [file |-> write_raw(LogHeader(new_pointer, Len(log.entries)),
                                log.entries),
             result |-> Ok(SubSeq(log.entries,
                                  IF new_pointer < 0 THEN 1 ELSE new_pointer + 1,
                                  pointer))]

\* A variant of pop_for_undo that succeeds with no entries when none is
\* active.
pop_for_undo_silent(file, count) ==
    With(read_raw(file), LAMBDA read :
    LET log == read.value
        pointer == log.header.pointer
        actual_count == IF count < pointer THEN count ELSE pointer
        new_pointer == pointer - actual_count
    IN IF ~read.ok THEN [file |-> file, result |-> read]
       ELSE [file |-> write_raw(LogHeader(new_pointer, Len(log.entries)),
                                log.entries),
             result |-> Ok(SubSeq(log.entries, new_pointer + 1, pointer))])

\* A variant of pop_for_undo that returns the oldest entries of the log.
pop_for_undo_oldest(file, count) ==
    With(read_raw(file), LAMBDA read :
    LET log == read.value
        pointer == log.header.pointer
        actual_count == IF count < pointer THEN count ELSE pointer
        new_pointer == pointer - actual_count
    IN IF ~read.ok THEN [file |-> file, result |-> read]
       ELSE IF pointer = 0
       THEN [file |-> file, result |-> Err("Nothing to undo")]
       ELSE [file |-> write_raw(LogHeader(new_pointer, Len(log.entries)),
                                log.entries),
             result |-> Ok(SubSeq(log.entries, 1, actual_count))])

\* oplog::pop_for_undo: the file afterwards and the result. The slice
\* entries[new_pointer..pointer] panics when pointer is past the entries read.
pop_for_undo(file, count) ==
    With(read_raw(file), LAMBDA read :
    LET log == read.value
        pointer == log.header.pointer
        actual_count == IF count < pointer THEN count ELSE pointer
        new_pointer == pointer - actual_count
    IN IF ~read.ok THEN [file |-> file, result |-> read]
       ELSE IF pointer = 0
       THEN [file |-> file, result |-> Err("Nothing to undo")]
       ELSE IF pointer > Len(log.entries)
       THEN [file |-> file, result |-> Err("panic")]
       ELSE [file |-> write_raw(LogHeader(new_pointer, Len(log.entries)),
                                log.entries),
             result |-> Ok(SubSeq(log.entries, new_pointer + 1, pointer))])

\* A variant of push_for_redo that writes the new pointer as the total.
push_for_redo_stale(file, count) ==
    With(read_raw(file), LAMBDA read :
    LET log == read.value
        pointer == log.header.pointer
        undone_count == Len(log.entries) - pointer
        actual_count == IF count < undone_count THEN count ELSE undone_count
        new_pointer == pointer + actual_count
    IN IF ~read.ok THEN [file |-> file, result |-> read]
       ELSE IF undone_count < 0
       THEN [file |-> file, result |-> Err("panic")]
       ELSE IF undone_count = 0
       THEN [file |-> file, result |-> Err("Nothing to redo")]
       ELSE [file |-> write_raw(LogHeader(new_pointer, new_pointer),
                                log.entries),
             result |-> Ok(SubSeq(log.entries, pointer + 1, new_pointer))])

\* A variant of push_for_redo that returns the newest entries of the log.
push_for_redo_newest(file, count) ==
    With(read_raw(file), LAMBDA read :
    LET log == read.value
        pointer == log.header.pointer
        undone_count == Len(log.entries) - pointer
        actual_count == IF count < undone_count THEN count ELSE undone_count
        new_pointer == pointer + actual_count
    IN IF ~read.ok THEN [file |-> file, result |-> read]
       ELSE IF undone_count <= 0
       THEN [file |-> file, result |-> Err("Nothing to redo")]
       ELSE [file |-> write_raw(LogHeader(new_pointer, Len(log.entries)),
                                log.entries),
             result |-> Ok(SubSeq(log.entries,
                                  Len(log.entries) - actual_count + 1,
                                  Len(log.entries)))])

\* oplog::push_for_redo. entries.len() - pointer is a usize subtraction: it
\* panics (debug build) or wraps (release build) when pointer is past the
\* entries read; wrapped, the slice entries[pointer..new_pointer] panics.
push_for_redo(file, count) ==
    With(read_raw(file), LAMBDA read :
    LET log == read.value
        pointer == log.header.pointer
        undone_count == Len(log.entries) - pointer
        actual_count == IF count < undone_count THEN count ELSE undone_count
        new_pointer == pointer + actual_count
    IN IF ~read.ok THEN [file |-> file, result |-> read]
       ELSE IF undone_count < 0
       THEN [file |-> file, result |-> Err("panic")]
       ELSE IF undone_count = 0
       THEN [file |-> file, result |-> Err("Nothing to redo")]
       ELSE [file |-> write_raw(LogHeader(new_pointer, Len(log.entries)),
                                log.entries),
             result |-> Ok(SubSeq(log.entries, pointer + 1, new_pointer))])

(***************************************************************************)
(* CLI commands                                                            *)
(***************************************************************************)
\* Every mutation of every entry, entries in the order given.
RECURSIVE ApplyEntriesOld(_, _, _)
ApplyEntriesOld(c, entries, i) ==
    IF i > Len(entries) THEN c
    ELSE LET muts == entries[i].mutations
             step[j \in 0..Len(muts)] ==
                 IF j = 0 THEN c
                 ELSE CanvasSet(step[j - 1], muts[j].x, muts[j].y,
                                LogCell_to_cell(muts[j].old))
         IN ApplyEntriesOld(step[Len(muts)], entries, i + 1)

RECURSIVE ApplyEntriesNew(_, _, _)
ApplyEntriesNew(c, entries, i) ==
    IF i > Len(entries) THEN c
    ELSE LET muts == entries[i].mutations
             step[j \in 0..Len(muts)] ==
                 IF j = 0 THEN c
                 ELSE CanvasSet(step[j - 1], muts[j].x, muts[j].y,
                                LogCell_to_cell(muts[j].new))
         IN ApplyEntriesNew(step[Len(muts)], entries, i + 1)

\* history_cmd::undo: pop, load, apply every `old`, save.
cli_undo(proj, file, count) ==
    With(pop_for_undo(file, count), LAMBDA popped :
       IF ~popped.result.ok
       THEN [project |-> proj, logfile |-> file, result |-> popped.result]
       ELSE [project |-> ApplyEntriesOld(proj, popped.result.value, 1),
             logfile |-> popped.file, result |-> popped.result])

\* history_cmd::redo: push, load, apply every `new`, save.
cli_redo(proj, file, count) ==
    With(push_for_redo(file, count), LAMBDA pushed :
       IF ~pushed.result.ok
       THEN [project |-> proj, logfile |-> file, result |-> pushed.result]
       ELSE [project |-> ApplyEntriesNew(proj, pushed.result.value, 1),
             logfile |-> pushed.file, result |-> pushed.result])

\* A variant of apply_and_save that logs the draw whatever --no-log says.
apply_and_save_logging(proj, file, now, tool_name, muts, sym, no_log) ==
    With(apply_symmetry(muts, sym, proj.width, proj.height), LAMBDA mutations :
    With(IF mutations # <<>>
         THEN append(file, make_entry(now, tool_name, mutations))
         ELSE [file |-> file, result |-> Ok(<<>>)], LAMBDA logged :
       [project |-> IF logged.result.ok THEN ApplyNew(proj, mutations, 1)
                    ELSE proj,
        logfile |-> logged.file,
        result |-> logged.result,
        recorded |-> mutations]))

\* draw::apply_and_save: expand, apply, log unless --no-log, save. A failed
\* append returns before the save.
apply_and_save(proj, file, now, tool_name, muts, sym, no_log) ==
    With(apply_symmetry(muts, sym, proj.width, proj.height), LAMBDA mutations :
    With(IF ~no_log /\ mutations # <<>>
         THEN append(file, make_entry(now, tool_name, mutations))
         ELSE [file |-> file, result |-> Ok(<<>>)], LAMBDA logged :
       [project |-> IF logged.result.ok THEN ApplyNew(proj, mutations, 1)
                    ELSE proj,
        logfile |-> logged.file,
        result |-> logged.result,
        recorded |-> mutations]))

(***************************************************************************)
(* CLI invocations on one project                                          *)
(***************************************************************************)
VARIABLES
    canvas,     \* App.canvas
    history,    \* App.history: undo_stack, redo_stack, pending
    last,       \* the last handler that ran: see Handler
    shape,      \* the run so far: "commits", then "undos", else "mixed";
                \* "commitsR" and "undosR" once a resize fell inside a stroke
    nOps,       \* tool applications and resizes so far
    nCommits,   \* successful History::commit calls so far
    strokeStart,\* the grid when the pending stroke began, while only the
                \* stroke has changed it since
    dirty,      \* App::dirty: the grid has changes not yet saved
    longRun     \* a run of single-cell edits past the history cap

appVars == <<canvas, history, last, shape, nOps, nCommits, strokeStart,
            longRun, dirty>>

VARIABLES
    project,    \* the canvas saved in the project file
    logfile,    \* the operation log file, as lines
    cliLast,    \* the last invocation: command, arguments, outcome
    snap,       \* grid, pointer and entries of an undo, kept for the redo after it
    pre,        \* for each entry of the log, the saved grid it was drawn on
    nAppends,   \* how many entries append has written so far
    truncated,  \* some append so far discarded undone entries
    mirrored,   \* some draw so far was expanded by a symmetry mode
    nDraws,     \* draw invocations so far (the clock of the timestamps)
    unlogged,   \* a --no-log draw has changed the grid
    cliLong     \* a run of single-cell draws past the log cap

cliVars == <<project, logfile, cliLast, snap, pre, nAppends, truncated, mirrored, nDraws,
             unlogged, cliLong>>

VARIABLES
    disk,       \* the files by path
    run,        \* the invocation in flight, None between invocations
    done,       \* how the last invocation ended: cmd, result
    atStart,    \* the grid in the project file when the last invocation
                \* that got to saving began
    target,     \* the grid that invocation computed
    hadLog,     \* the log file when the last invocation began
    nRuns,      \* invocations begun so far
    nCrashes,   \* invocations killed so far
    nCorrupt    \* lines of the log damaged so far

fsVars == <<disk, run, done, atStart, target, hadLog, nRuns, nCrashes,
           nCorrupt>>

VARIABLES
    lineFrom,   \* the endpoints given to the line tool
    lineTo,
    forward,    \* bresenham_line(lineFrom, lineTo), None until computed
    backward    \* bresenham_line(lineTo, lineFrom), None until computed

lineVars == <<lineFrom, lineTo, forward, backward>>

VARIABLES
    toolGrid,   \* the grid handed to a drawing tool
    toolCall,   \* the tool called and its arguments, None before the call
    toolOut,    \* what the call returned, None until it returns
    fillLoop    \* the state of flood_fill's loop, None outside it

toolVars == <<toolGrid, toolCall, toolOut, fillLoop>>

VARIABLES
    names,      \* the directory: the inode behind each path, None if absent
    inodes,     \* the lines held by each inode
    procs,      \* two CLI invocations running at the same time
    renamed     \* the invocations whose rename succeeded, in order

raceVars == <<names, inodes, procs, renamed>>

VARIABLES
    asked       \* the tool and coordinate the last `draw` was given

drawVars == <<asked>>

VARIABLES
    session,    \* App: project_name, project_path, auto_save_ticks, mode
    stored,     \* the files of the working directory by name
    autosaved,  \* the autosave files do_auto_save has written
    saveLast    \* the last save asked for and whether it succeeded

saveVars == <<session, stored, autosaved, saveLast>>

\* Inputs of the CLI.
CliPoints == {<<0, 0>>, <<1, 0>>, <<GridW, 0>>}
CliColors == {Red}
CliSymmetry == {"Off", "Horizontal"}
Counts == 0..MaxCount

Invocation(op, count, ok, returned, sym, no_log) ==
    [op |-> op, count |-> count, ok |-> ok, returned |-> returned,
     sym |-> sym, no_log |-> no_log,
     undone |-> With(Log(logfile).header, LAMBDA h : h.total - h.pointer)]

\* cmd_new: a fresh project and an initialised log.
CliInit(long) ==
    /\ project = NewCanvas(GridW, GridH)
    /\ logfile = init_log
    /\ cliLast = [op |-> "new", count |-> 0, ok |-> TRUE, returned |-> <<>>,
                  sym |-> "Off", no_log |-> FALSE, undone |-> 0]
    /\ snap = None
    /\ pre = <<>>
    /\ nAppends = 0
    /\ truncated = FALSE
    /\ mirrored = FALSE
    /\ nDraws = 0
    /\ unlogged = FALSE
    /\ cliLong \in long

\* A variant of validate_coords that looks at the column only.
validate_coords_x_only(x, y, c) == ~(x >= c.width)

\* validate_coords: the coordinate lies on the canvas.
validate_coords(x, y, c) == ~(x >= c.width \/ y >= c.height)

\* The grids before the entries, kept in step with append's truncation
\* and pruning.
PreAfterAppend(file, grids, grid) ==
    With(Log(file).header.pointer, LAMBDA pointer :
    LET kept == SubSeq(grids, 1, IF pointer < Len(grids)
                                 THEN pointer ELSE Len(grids))
        pushed == Append(kept, grid)
    IN IF Len(pushed) > MAX_LOG_ENTRIES
       THEN SubSeq(pushed, Len(pushed) - MAX_LOG_ENTRIES + 1, Len(pushed))
       ELSE pushed)

\* One draw invocation with the tool's mutations muts.
DrawWith(tool_name, muts, sym, no_log) ==
    With(apply_and_save(project, logfile, nDraws + 1, tool_name, muts,
                        sym, no_log), LAMBDA r :
    LET logged == ~no_log /\ r.recorded # <<>>
    IN /\ project' = r.project
       /\ logfile' = r.logfile
       /\ cliLast' = Invocation("draw", 0, r.result.ok, r.recorded, sym, no_log)
       /\ snap' = None
       /\ pre' = IF logged THEN PreAfterAppend(logfile, pre, project) ELSE pre
       /\ nAppends' = IF logged THEN nAppends + 1 ELSE nAppends
       /\ truncated' = (truncated
                        \/ (logged /\ With(Log(logfile), LAMBDA log :
                                log.header.pointer < Len(log.entries))))
       /\ unlogged' = (unlogged \/ (no_log /\ r.recorded # <<>>))
       /\ mirrored' = (mirrored \/ (sym # "Off" /\ r.recorded # <<>>))
       /\ nDraws' = nDraws + 1)

\* A draw refused by validate_coords: exit 1, nothing written.
DrawRefused ==
    /\ cliLast' = Invocation("draw", 0, FALSE, <<>>, "Off", FALSE)
    /\ snap' = None
    /\ nDraws' = nDraws + 1
    /\ UNCHANGED <<project, logfile, pre, nAppends, truncated, mirrored, unlogged>>

\* draw pencil FILE X,Y --color C --symmetry S [--no-log]
CliPencil ==
    /\ ~cliLong /\ nDraws < MaxDraws
    /\ \E p \in CliPoints, fg \in CliColors, sym \in CliSymmetry,
          no_log \in BOOLEAN :
        IF validate_coords(p[1], p[2], project)
        THEN DrawWith("pencil",
                      pencil(project, p[1], p[2], FULL, Some(fg), None),
                      sym, no_log)
        ELSE DrawRefused
    /\ UNCHANGED <<cliLong, appVars, fsVars, lineVars, toolVars, raceVars, drawVars, saveVars>>

\* draw eraser FILE X,Y
CliEraser ==
    /\ ~cliLong /\ nDraws < MaxDraws
    /\ \E p \in CliPoints :
        IF validate_coords(p[1], p[2], project)
        THEN DrawWith("eraser", eraser(project, p[1], p[2]), "Off", FALSE)
        ELSE DrawRefused
    /\ UNCHANGED <<cliLong, appVars, fsVars, lineVars, toolVars, raceVars, drawVars, saveVars>>

\* The long run: pencil and eraser in turn on one cell, every draw logged.
CliLongDraw ==
    /\ cliLong /\ nDraws < MAX_LOG_ENTRIES + MaxOver
    /\ IF project.cells[<<0, 0>>] = EmptyCell
       THEN DrawWith("pencil", pencil(project, 0, 0, FULL, Some(Red), None),
                     "Off", FALSE)
       ELSE DrawWith("eraser", eraser(project, 0, 0), "Off", FALSE)
    /\ UNCHANGED <<cliLong, appVars, fsVars, lineVars, toolVars, raceVars, drawVars, saveVars>>

\* The long run undoes only once the log is one below the cap, and never
\* holds more than MaxCount undone entries.
LongUndoAllowed(count) ==
    cliLong => /\ nDraws >= MAX_LOG_ENTRIES - 1
               /\ With(Log(logfile).header, LAMBDA h :
                      h.total - h.pointer + count <= MaxCount)

\* undo FILE --count N
CliUndo ==
    /\ \E count \in Counts :
        /\ LongUndoAllowed(count)
        /\ With(cli_undo(project, logfile, count), LAMBDA r :
              /\ project' = r.project
              /\ logfile' = r.logfile
              /\ cliLast' = Invocation("undo", count, r.result.ok,
                                        IF r.result.ok THEN r.result.value ELSE <<>>,
                                        "Off", FALSE)
              /\ snap' = IF r.result.ok
                         THEN Some([phase |-> "undone", project |-> project,
                                    pointer |-> Log(logfile).header.pointer,
                                    count |-> count,
                                    returned |-> r.result.value])
                         ELSE None)
    /\ UNCHANGED <<pre, nAppends, truncated, mirrored, nDraws, unlogged, cliLong,
                   appVars, fsVars, lineVars, toolVars, raceVars, drawVars, saveVars>>

\* redo FILE --count N
CliRedo ==
    /\ \E count \in Counts :
        /\ cliLong => nDraws >= MAX_LOG_ENTRIES - 1
        /\ With(cli_redo(project, logfile, count), LAMBDA r :
              /\ project' = r.project
              /\ logfile' = r.logfile
              /\ cliLast' = Invocation("redo", count, r.result.ok,
                                        IF r.result.ok THEN r.result.value ELSE <<>>,
                                        "Off", FALSE))
    /\ snap' = IF snap # None /\ Unwrap(snap).phase = "undone"
               THEN Some([Unwrap(snap) EXCEPT !.phase = "redone"])
               ELSE None
    /\ UNCHANGED <<pre, nAppends, truncated, mirrored, nDraws, unlogged, cliLong,
                   appVars, fsVars, lineVars, toolVars, raceVars, drawVars, saveVars>>

CliNext ==
    \/ CliPencil
    \/ CliEraser
    \/ CliLongDraw
    \/ CliUndo
    \/ CliRedo

(***************************************************************************)
(* Interactive session (App)                                               *)
(***************************************************************************)

\* Inputs of the session's events.
Tools == {"Pencil", "Eraser"}
PenPoints == {<<0, 0>>}
AppSymmetry == {"Off", "Horizontal"}
ResizeDims == {<<GridW - 1, GridH>>, <<GridW, GridH>>}

\* Canvas::new() of App::new().
canvas0 == NewCanvas(GridW, GridH)

RECURSIVE PushAll(_, _, _)
\* history.push_mutation(m) for mutations i, i+1, .., Len.
PushAll(h, muts, i) ==
    IF i > Len(muts) THEN h
    ELSE PushAll(push_mutation(h, muts[i]), muts, i + 1)

\* The `old` of every mutation re-read from the canvas at its coordinate.
Resample(c, muts) ==
    [i \in 1..Len(muts) |->
        LET got == CanvasGet(c, muts[i].x, muts[i].y)
        IN IF got # None THEN [muts[i] EXCEPT !.old = Unwrap(got)] ELSE muts[i]]

\* App::apply_tool for the pencil and the eraser.
apply_tool(c, h, tool, x, y, sym) ==
    LET produced == IF tool = "Pencil"
                    THEN pencil(c, x, y, FULL, Some(Red), None)
                    ELSE eraser(c, x, y)
        expanded == apply_symmetry(produced, sym, c.width, c.height)
        mutations == Resample(c, expanded)
    IN IF expanded = <<>>
       THEN [canvas |-> c, history |-> h]
       ELSE [canvas |-> ApplyNew(c, mutations, 1),
             history |-> PushAll(h, mutations, 1)]

\* Successful commits of one end_stroke / of pushing muts one by one.
CommitsOfEnd(h) == IF h.pending # None /\ Unwrap(h.pending) # <<>> THEN 1 ELSE 0
CommitsOfPush(h, muts) == IF h.pending # None THEN 0 ELSE Len(muts)

\* Mutations one apply_tool call records.
Recorded(c, tool, x, y, sym) ==
    LET produced == IF tool = "Pencil"
                    THEN pencil(c, x, y, FULL, Some(Red), None)
                    ELSE eraser(c, x, y)
    IN apply_symmetry(produced, sym, c.width, c.height)

ShapeAfterEdit ==
    IF shape \in {"commits", "commitsR"} THEN shape ELSE "mixed"

\* What a handler leaves in `last`: its name, what undo/redo returned, how
\* many actions it committed, and the redo stack's length when it began.
Handler(op, ret, commits) ==
    [op |-> op, ret |-> ret, commits |-> commits,
     redoBefore |-> Len(history.redo_stack)]

AppInit(long) ==
    /\ canvas = canvas0
    /\ history = NewHistory
    /\ last = [op |-> "new", ret |-> TRUE, commits |-> 0, redoBefore |-> 0]
    /\ shape = "commits"
    /\ nOps = 0
    /\ nCommits = 0
    /\ strokeStart = None
    /\ longRun \in long
    /\ dirty = FALSE

\* handle_mouse, Down(Left) on the canvas with the pencil or the eraser:
\* begin_stroke, then apply_tool.
MouseDown ==
    /\ ~longRun /\ nOps < MaxOps
    /\ session.mode = "Normal"
    /\ \E tool \in Tools, p \in PenPoints, sym \in AppSymmetry :
        LET h1 == begin_stroke(history)
            r == apply_tool(canvas, h1, tool, p[1], p[2], sym)
        IN /\ canvas' = r.canvas
           /\ history' = r.history
           /\ dirty' = (dirty \/ Recorded(canvas, tool, p[1], p[2], sym) # <<>>)
           /\ nCommits' = nCommits + CommitsOfEnd(history)
    /\ last' = Handler("down", TRUE, nCommits' - nCommits)
    /\ strokeStart' = Some(canvas)
    /\ shape' = ShapeAfterEdit
    /\ nOps' = nOps + 1
    /\ UNCHANGED <<longRun, cliVars, fsVars, lineVars, toolVars, raceVars, drawVars, saveVars>>

\* handle_mouse, Drag(Left): apply_tool, whether or not a stroke is active.
Drag(tools, modes) ==
    /\ ~longRun /\ nOps < MaxOps
    /\ session.mode = "Normal"
    /\ \E tool \in tools, p \in PenPoints, sym \in modes :
        LET r == apply_tool(canvas, history, tool, p[1], p[2], sym)
        IN /\ canvas' = r.canvas
           /\ history' = r.history
           /\ dirty' = (dirty \/ Recorded(canvas, tool, p[1], p[2], sym) # <<>>)
           /\ nCommits' = nCommits
                + CommitsOfPush(history, Recorded(canvas, tool, p[1], p[2], sym))
    /\ last' = Handler("drag", TRUE, nCommits' - nCommits)
    /\ UNCHANGED strokeStart
    /\ shape' = ShapeAfterEdit
    /\ nOps' = nOps + 1
    /\ UNCHANGED <<longRun, cliVars, fsVars, lineVars, toolVars, raceVars, drawVars, saveVars>>

MouseDrag == Drag(Tools, AppSymmetry)

\* handle_mouse, Up(Left): end_stroke when a stroke is active.
MouseUp ==
    /\ ~longRun
    /\ session.mode = "Normal"
    /\ history.pending # None
    /\ history' = end_stroke(history)
    /\ nCommits' = nCommits + CommitsOfEnd(history)
    /\ last' = Handler("up", TRUE, nCommits' - nCommits)
    /\ strokeStart' = None
    /\ shape' = ShapeAfterEdit
    /\ UNCHANGED <<canvas, nOps, longRun, dirty, cliVars, fsVars, lineVars,
                   toolVars, raceVars, drawVars, saveVars>>

\* handle_key, Space on the canvas cursor: begin_stroke, apply_tool,
\* end_stroke. The long run alternates pencil and eraser on one cell, and
\* stops editing once it has started to undo.
KeySpace ==
    /\ longRun /\ nOps < MAX_HISTORY + MaxOver
    /\ session.mode = "Normal"
    /\ history.redo_stack = <<>>
    /\ LET tool == IF canvas.cells[<<0, 0>>] = EmptyCell THEN "Pencil" ELSE "Eraser"
           h1 == begin_stroke(history)
           r == apply_tool(canvas, h1, tool, 0, 0, "Off")
       IN /\ canvas' = r.canvas
          /\ history' = end_stroke(r.history)
          /\ dirty' = (dirty \/ Recorded(canvas, tool, 0, 0, "Off") # <<>>)
          /\ nCommits' = nCommits + CommitsOfEnd(history) + CommitsOfEnd(r.history)
    /\ last' = Handler("space", TRUE, nCommits' - nCommits)
    /\ strokeStart' = None
    /\ shape' = ShapeAfterEdit
    /\ nOps' = nOps + 1
    /\ UNCHANGED <<longRun, cliVars, fsVars, lineVars, toolVars, raceVars, drawVars, saveVars>>

\* do_resize: snapshot, resize, snapshot, commit. A resize to the current
\* size is refused before it gets here.
Resize ==
    /\ ~longRun /\ nOps < MaxOps
    /\ \E d \in ResizeDims :
        /\ d # <<canvas.width, canvas.height>>
        /\ LET resized == CanvasResize(canvas, d[1], d[2])
           IN /\ canvas' = resized
              /\ history' = commit(history,
                    CanvasSnapshot(canvas.cells, canvas.width, canvas.height,
                                   resized.cells, resized.width, resized.height))
    /\ dirty' = TRUE
    /\ nCommits' = nCommits + 1
    /\ last' = Handler("resize", TRUE, nCommits' - nCommits)
    /\ strokeStart' = None
    /\ shape' = IF history.pending = None THEN ShapeAfterEdit
                ELSE IF shape \in {"commits", "commitsR"} THEN "commitsR"
                ELSE "mixed"
    /\ nOps' = nOps + 1
    /\ UNCHANGED <<longRun, cliVars, fsVars, lineVars, toolVars, raceVars, drawVars, saveVars>>

\* handle_key, Ctrl+Z: App::undo. The long run undoes only after it has
\* filled the history to one below the cap.
KeyUndo ==
    /\ longRun => nOps >= MAX_HISTORY - 1
    /\ session.mode = "Normal"
    /\ LET r == undo(history, canvas)
       IN /\ canvas' = r.canvas
          /\ history' = r.history
          /\ dirty' = (dirty \/ r.ret)
          /\ last' = Handler("undo", r.ret, 0)
          /\ strokeStart' = IF r.ret THEN None ELSE strokeStart
    /\ shape' = IF shape \in {"commits", "undos"} /\ history.pending = None
                THEN "undos"
                ELSE IF shape \in {"commitsR", "undosR"} /\ history.pending = None
                THEN "undosR"
                ELSE "mixed"
    /\ UNCHANGED <<nOps, nCommits, longRun, cliVars, fsVars, lineVars, toolVars, raceVars, drawVars, saveVars>>

\* handle_key, Ctrl+Y: App::redo. The long run redoes, as it undoes, only
\* after it has filled the history to one below the cap.
KeyRedo ==
    /\ longRun => nOps >= MAX_HISTORY - 1
    /\ session.mode = "Normal"
    /\ LET r == redo(history, canvas)
       IN /\ canvas' = r.canvas
          /\ history' = r.history
          /\ dirty' = (dirty \/ r.ret)
          /\ last' = Handler("redo", r.ret, 0)
          /\ strokeStart' = IF r.ret THEN None ELSE strokeStart
    /\ shape' = "mixed"
    /\ UNCHANGED <<nOps, nCommits, longRun, cliVars, fsVars, lineVars, toolVars, raceVars, drawVars, saveVars>>

AppNext ==
    \/ MouseDown
    \/ MouseDrag
    \/ MouseUp
    \/ KeySpace
    \/ Resize
    \/ KeyUndo
    \/ KeyRedo

(***************************************************************************)
(* Interactive session: the two-click and one-click tools                  *)
(***************************************************************************)
\* ToolState: Idle, LineStart { x, y }, RectStart { x, y }.
Idle == [kind |-> "Idle", x |-> 0, y |-> 0]
LineStart(x, y) == [kind |-> "LineStart", x |-> x, y |-> y]
RectStart(x, y) == [kind |-> "RectStart", x |-> x, y |-> y]

\* Inputs of a click.
ShapeTools == {"Fill", "Line", "Rectangle"}
ShapePoints == {<<0, 0>>, <<GridW - 1, GridH - 1>>}

\* App::apply_tool from "Apply symmetry" on: expand, re-read `old`, set the
\* cells, push the mutations one by one.
record_mutations(c, h, produced, sym) ==
    LET expanded == apply_symmetry(produced, sym, c.width, c.height)
        mutations == Resample(c, expanded)
    IN IF expanded = <<>>
       THEN [canvas |-> c, history |-> h, recorded |-> <<>>]
       ELSE [canvas |-> ApplyNew(c, mutations, 1),
             history |-> PushAll(h, mutations, 1),
             recorded |-> mutations]

\* App::apply_tool for Fill, Line and Rectangle: the first click of a line
\* or a rectangle only stores the point. Both points of a line are on the
\* canvas, where bresenham_line does not overflow.
apply_shape(c, h, ts, tool, x, y, sym, filled) ==
    LET keep(ts2) == [canvas |-> c, history |-> h, recorded |-> <<>>,
                      tool_state |-> ts2, completed |-> FALSE]
        finish(produced, ts2) ==
            LET r == record_mutations(c, h, produced, sym)
            IN [canvas |-> r.canvas, history |-> r.history,
                recorded |-> r.recorded, tool_state |-> ts2,
                completed |-> TRUE]
    IN CASE tool = "Fill" ->
              finish(flood_fill(c, x, y, FULL, Some(Red), None), ts)
         [] tool = "Line" /\ ts.kind = "Idle" -> keep(LineStart(x, y))
         [] tool = "Line" /\ ts.kind = "LineStart" ->
              finish(line(c, ts.x, ts.y, x, y, FULL, Some(Red), None).value,
                     Idle)
         [] tool = "Rectangle" /\ ts.kind = "Idle" -> keep(RectStart(x, y))
         [] tool = "Rectangle" /\ ts.kind = "RectStart" ->
              finish(rectangle(c, ts.x, ts.y, x, y, FULL, Some(Red), None,
                             filled), Idle)
         [] OTHER -> keep(ts)

\* handle_mouse, Down(Left) on the canvas with Fill, Line or Rectangle:
\* apply_tool without begin_stroke.
MouseClick ==
    /\ ~longRun /\ nOps < MaxOps
    /\ session.mode = "Normal"
    /\ \E tool \in ShapeTools, p \in ShapePoints, sym \in AppSymmetry,
          filled \in BOOLEAN :
        LET r == apply_shape(canvas, history, session.tool_state, tool,
                             p[1], p[2], sym, filled)
        IN /\ canvas' = r.canvas
           /\ history' = r.history
           /\ session' = [session EXCEPT !.tool_state = r.tool_state]
           /\ dirty' = (dirty \/ r.recorded # <<>>)
           /\ nCommits' = nCommits + CommitsOfPush(history, r.recorded)
           /\ last' = [op |-> IF r.completed THEN "click" ELSE "first",
                       ret |-> r.recorded # <<>>,
                       commits |-> nCommits' - nCommits,
                       redoBefore |-> Len(history.redo_stack)]
    /\ strokeStart' = Some(canvas)
    /\ shape' = ShapeAfterEdit
    /\ nOps' = nOps + 1
    /\ UNCHANGED <<longRun, stored, autosaved, saveLast, cliVars, fsVars,
                   lineVars, toolVars, raceVars, drawVars>>

ShapeNext ==
    \/ MouseClick
    \/ KeyUndo
    \/ KeyRedo

(***************************************************************************)
(* Files on disk: the steps of one CLI invocation, crashes, corruption     *)
(***************************************************************************)
\* Project::save_to_file's serialisation, in the pieces a write can stop
\* between: the dimensions, then one piece per row.
ProjectLines(c) ==
    <<[kind |-> "dims", width |-> c.width, height |-> c.height]>>
    \o [y \in 1..c.height |->
          [kind |-> "row",
           cells |-> [x \in 0..(c.width - 1) |-> c.cells[<<x, y - 1>>]]]]

\* Project::save_to_file, run to its end.
save_to_file(c) == File(ProjectLines(c))

\* Project::load_from_file: the grid of a whole serialisation, else an error.
load_from_file(file) ==
    IF file.lines = <<>> \/ Head(file.lines).kind # "dims"
    THEN Err("parse")
    ELSE LET dims == Head(file.lines)
             rows == Tail(file.lines)
         IN IF Len(rows) # dims.height
               \/ \E i \in 1..Len(rows) : rows[i].kind # "row"
            THEN Err("parse")
            ELSE Ok([width |-> dims.width, height |-> dims.height,
                     cells |-> [p \in Coords(dims.width, dims.height) |->
                                  rows[p[2] + 1].cells[p[1]]]])

\* cli::load_project: exit 1 when the file is missing, exit 2 when it does
\* not load.
load_project(file) ==
    IF ~file.exists THEN Err("File not found") ELSE load_from_file(file)

\* The paths of one project: FILE, FILE.kaku.tmp (atomic_save) and the log
\* beside it (oplog::log_path).
ProjectPath == "project"
save_in_place(path) == path
tmp_path(path) == "tmp"
log_path(path) == "log"

\* std::fs::File::create: the file exists and is empty.
create(files, path) == [files EXCEPT ![path] = File(<<>>)]

\* One more line written to the end of a file.
write_line(files, path, text) ==
    [files EXCEPT ![path] = File(Append(files[path].lines, text))]

\* std::fs::rename: the target becomes the source file in one step.
rename(files, from, to) ==
    IF from = to THEN files
    ELSE [files EXCEPT ![to] = files[from], ![from] = NoFile]

\* `new`: the project saved, the log initialised.
FsInit ==
    /\ disk = [project |-> save_to_file(NewCanvas(GridW, GridH)),
               tmp |-> NoFile,
               log |-> init_log]
    /\ run = None
    /\ done = [cmd |-> "new", result |-> Ok(<<>>)]
    /\ atStart = NewCanvas(GridW, GridH)
    /\ target = NewCanvas(GridW, GridH)
    /\ hadLog = init_log
    /\ nRuns = 0
    /\ nCrashes = 0
    /\ nCorrupt = 0

\* The invocation ends before it writes anything.
Exit(cmd, result) ==
    /\ run' = None
    /\ done' = [cmd |-> cmd, result |-> result]
    /\ UNCHANGED <<disk, atStart, target>>

\* The invocation has read its inputs and goes on to write: the log first
\* when it writes the log, then the project. newGrid is None when the
\* project did not load.
Enter(cmd, writesLog, logLines, oldGrid, newGrid, result) ==
    /\ run' = Some([cmd |-> cmd, result |-> result, logLines |-> logLines,
                    newLines |-> IF newGrid = None THEN <<>>
                                 ELSE ProjectLines(Unwrap(newGrid)),
                    loaded |-> newGrid # None,
                    pc |-> IF writesLog THEN "log_create" ELSE "save"])
    /\ atStart' = IF newGrid = None THEN atStart ELSE oldGrid
    /\ target' = IF newGrid = None THEN target ELSE Unwrap(newGrid)
    /\ UNCHANGED <<disk, done>>

\* draw pencil FILE 0,0 --color red / draw eraser FILE 0,0
StartDraw ==
    /\ run = None /\ nRuns < MaxRuns
    /\ nRuns' = nRuns + 1
    /\ hadLog' = disk[log_path(ProjectPath)]
    /\ \E tool \in {"pencil", "eraser"} :
        With(load_project(disk[ProjectPath]), LAMBDA loaded :
          IF ~loaded.ok THEN Exit("draw", loaded)
          ELSE With(apply_and_save(
                        loaded.value, disk[log_path(ProjectPath)], nRuns + 1,
                        tool,
                        IF tool = "pencil"
                        THEN pencil(loaded.value, 0, 0, FULL, Some(Red), None)
                        ELSE eraser(loaded.value, 0, 0),
                        "Off", FALSE), LAMBDA r :
                 IF ~r.result.ok THEN Exit("draw", r.result)
                 ELSE Enter("draw", r.recorded # <<>>, r.logfile.lines,
                            loaded.value, Some(r.project), r.result)))
    /\ UNCHANGED <<nCrashes, nCorrupt, appVars, cliVars, lineVars, toolVars, raceVars, drawVars, saveVars>>

\* undo FILE --count N: pop_for_undo reads and rewrites the log before the
\* project is loaded.
StartUndo ==
    /\ run = None /\ nRuns < MaxRuns
    /\ nRuns' = nRuns + 1
    /\ hadLog' = disk[log_path(ProjectPath)]
    /\ \E count \in 1..MaxCount :
        With(pop_for_undo(disk[log_path(ProjectPath)], count), LAMBDA popped :
        With(load_project(disk[ProjectPath]), LAMBDA loaded :
          IF ~popped.result.ok THEN Exit("undo", popped.result)
          ELSE Enter("undo", TRUE, popped.file.lines, loaded.value,
                     IF loaded.ok
                     THEN Some(ApplyEntriesOld(loaded.value,
                                               popped.result.value, 1))
                     ELSE None,
                     popped.result)))
    /\ UNCHANGED <<nCrashes, nCorrupt, appVars, cliVars, lineVars, toolVars, raceVars, drawVars, saveVars>>

\* redo FILE --count N
StartRedo ==
    /\ run = None /\ nRuns < MaxRuns
    /\ nRuns' = nRuns + 1
    /\ hadLog' = disk[log_path(ProjectPath)]
    /\ \E count \in 1..MaxCount :
        With(push_for_redo(disk[log_path(ProjectPath)], count), LAMBDA pushed :
        With(load_project(disk[ProjectPath]), LAMBDA loaded :
          IF ~pushed.result.ok THEN Exit("redo", pushed.result)
          ELSE Enter("redo", TRUE, pushed.file.lines, loaded.value,
                     IF loaded.ok
                     THEN Some(ApplyEntriesNew(loaded.value,
                                               pushed.result.value, 1))
                     ELSE None,
                     pushed.result)))
    /\ UNCHANGED <<nCrashes, nCorrupt, appVars, cliVars, lineVars, toolVars, raceVars, drawVars, saveVars>>

\* The invocation in flight.
Running == Unwrap(run)

\* write_raw, first step: File::create truncates the log in place.
LogCreate ==
    /\ run # None /\ Running.pc = "log_create"
    /\ disk' = create(disk, log_path(ProjectPath))
    /\ run' = Some([Running EXCEPT !.pc = "log_write"])
    /\ UNCHANGED <<done, atStart, target, hadLog, nRuns, nCrashes, nCorrupt,
                   appVars, cliVars, lineVars, toolVars, raceVars, drawVars, saveVars>>

\* write_raw, each writeln!: the header line, then the entry lines.
LogWriteLine ==
    /\ run # None /\ Running.pc = "log_write"
    /\ LET n == Len(disk[log_path(ProjectPath)].lines)
       IN /\ disk' = write_line(disk, log_path(ProjectPath),
                                Running.logLines[n + 1])
          /\ run' = Some([Running EXCEPT
                            !.pc = IF n + 1 = Len(Running.logLines)
                                   THEN "save" ELSE "log_write"])
    /\ UNCHANGED <<done, atStart, target, hadLog, nRuns, nCrashes, nCorrupt,
                   appVars, cliVars, lineVars, toolVars, raceVars, drawVars, saveVars>>

\* atomic_save, first step: save_to_file creates the temporary file; an
\* invocation whose project did not load has exited instead.
SaveCreate ==
    /\ run # None /\ Running.pc = "save"
    /\ IF ~Running.loaded
       THEN /\ run' = None
            /\ done' = [cmd |-> Running.cmd, result |-> Err("Failed to load")]
            /\ UNCHANGED disk
       ELSE /\ disk' = create(disk, tmp_path(ProjectPath))
            /\ run' = Some([Running EXCEPT !.pc = "save_write"])
            /\ UNCHANGED done
    /\ UNCHANGED <<atStart, target, hadLog, nRuns, nCrashes, nCorrupt,
                   appVars, cliVars, lineVars, toolVars, raceVars, drawVars, saveVars>>

\* atomic_save: save_to_file writes the temporary file piece by piece.
SaveWriteLine ==
    /\ run # None /\ Running.pc = "save_write"
    /\ LET n == Len(disk[tmp_path(ProjectPath)].lines)
       IN /\ disk' = write_line(disk, tmp_path(ProjectPath),
                                Running.newLines[n + 1])
          /\ run' = Some([Running EXCEPT
                            !.pc = IF n + 1 = Len(Running.newLines)
                                   THEN "rename" ELSE "save_write"])
    /\ UNCHANGED <<done, atStart, target, hadLog, nRuns, nCrashes, nCorrupt,
                   appVars, cliVars, lineVars, toolVars, raceVars, drawVars, saveVars>>

\* atomic_save, last step: the temporary file is renamed over the project;
\* the invocation prints its result and exits 0.
SaveRename ==
    /\ run # None /\ Running.pc = "rename"
    /\ disk' = rename(disk, tmp_path(ProjectPath), ProjectPath)
    /\ run' = None
    /\ done' = [cmd |-> Running.cmd, result |-> Running.result]
    /\ UNCHANGED <<atStart, target, hadLog, nRuns, nCrashes, nCorrupt,
                   appVars, cliVars, lineVars, toolVars, raceVars, drawVars, saveVars>>

\* The process is killed between two steps, or inside a line it is writing:
\* the files stay as they are, a line begun stays cut short.
Crash ==
    /\ run # None /\ nCrashes < MaxCrashes
    /\ \E torn \in BOOLEAN :
        disk' = IF torn /\ Running.pc = "log_write"
                THEN write_line(disk, log_path(ProjectPath), Malformed)
                ELSE IF torn /\ Running.pc = "save_write"
                THEN write_line(disk, tmp_path(ProjectPath), Malformed)
                ELSE disk
    /\ run' = None
    /\ done' = [cmd |-> Running.cmd, result |-> Err("killed")]
    /\ nCrashes' = nCrashes + 1
    /\ UNCHANGED <<atStart, target, hadLog, nRuns, nCorrupt, appVars, cliVars, lineVars, toolVars, raceVars, drawVars, saveVars>>

\* Damage to the log between invocations: one line no longer parses, or is
\* blanked.
Corrupt ==
    /\ run = None /\ nCorrupt < MaxCorrupt
    /\ \E i \in 1..Len(disk[log_path(ProjectPath)].lines),
          bad \in {Malformed, Blank} :
        /\ disk[log_path(ProjectPath)].lines[i] # bad
        /\ disk' = [disk EXCEPT ![log_path(ProjectPath)].lines[i] = bad]
    /\ nCorrupt' = nCorrupt + 1
    /\ UNCHANGED <<run, done, atStart, target, hadLog, nRuns, nCrashes,
                   appVars, cliVars, lineVars, toolVars, raceVars, drawVars, saveVars>>

FsNext ==
    \/ StartDraw
    \/ StartUndo
    \/ StartRedo
    \/ LogCreate
    \/ LogWriteLine
    \/ SaveCreate
    \/ SaveWriteLine
    \/ SaveRename
    \/ Crash
    \/ Corrupt

(***************************************************************************)
(* The line tool's points                                                  *)
(***************************************************************************)
\* Endpoints near the grid, and two far ones: the largest usize and the
\* largest isize.
FarPoints == {<<USIZE_MAX, 0>>, <<0, ISIZE_MAX>>}
Endpoints == ((0..MaxCoord) \X (0..MaxCoord)) \cup FarPoints

\* No line asked for.
NoLine ==
    /\ lineFrom = <<0, 0>>
    /\ lineTo = <<0, 0>>
    /\ forward = None
    /\ backward = None

\* Two endpoints given, nothing computed yet.
LineInit ==
    /\ lineFrom \in Endpoints
    /\ lineTo \in Endpoints
    /\ forward = None
    /\ backward = None

\* The line from the first endpoint to the second.
LineForward ==
    /\ forward = None
    /\ forward' = Some(bresenham_line(lineFrom[1], lineFrom[2],
                                      lineTo[1], lineTo[2]))
    /\ UNCHANGED <<lineFrom, lineTo, backward, appVars, cliVars, fsVars,
                   toolVars, raceVars, drawVars, saveVars>>

\* The line from the second endpoint to the first.
LineBackward ==
    /\ backward = None
    /\ backward' = Some(bresenham_line(lineTo[1], lineTo[2],
                                       lineFrom[1], lineFrom[2]))
    /\ UNCHANGED <<lineFrom, lineTo, forward, appVars, cliVars, fsVars,
                   toolVars, raceVars, drawVars, saveVars>>

LineNext ==
    \/ LineForward
    \/ LineBackward

(***************************************************************************)
(* The drawing tools, one call on one grid                                 *)
(***************************************************************************)
RedCell == MkCell(FULL, Some(Red), None)

\* The grids handed to the tools: empty but for red cells at some of a few
\* places near the origin.
WallPlaces == {<<1, 0>>, <<0, 1>>, <<1, 1>>}
ToolSizes == {<<GridW, GridH>>, <<MaxToolW, 1>>}
ToolGrids ==
    {[width |-> d[1], height |-> d[2],
      cells |-> [p \in Coords(d[1], d[2]) |->
                    IF p \in walls THEN RedCell ELSE EmptyCell]] :
        d \in ToolSizes, walls \in SUBSET WallPlaces}

\* The cells a tool is asked to paint, and the places it is asked to paint
\* at: in the grid and just outside it.
ToolCells == {RedCell, EmptyCell}
ToolPoints == (0..MaxCoord) \X (0..MaxCoord)

\* No tool call in hand.
NoTool ==
    /\ toolGrid = NewCanvas(GridW, GridH)
    /\ toolCall = None
    /\ toolOut = None
    /\ fillLoop = None

ToolInit ==
    /\ toolGrid \in ToolGrids
    /\ toolCall = None
    /\ toolOut = None
    /\ fillLoop = None

ToolPencil ==
    /\ toolCall = None
    /\ \E p \in ToolPoints, new \in ToolCells :
        /\ toolCall' = Some([tool |-> "pencil", from |-> p, to |-> p, new |-> new,
                         filled |-> FALSE])
        /\ toolOut' = Some(Ok(pencil(toolGrid, p[1], p[2], new.ch, new.fg, new.bg)))
    /\ UNCHANGED <<toolGrid, fillLoop, appVars, cliVars, fsVars, lineVars,
                   raceVars, drawVars, saveVars>>

ToolEraser ==
    /\ toolCall = None
    /\ \E p \in ToolPoints :
        /\ toolCall' = Some([tool |-> "eraser", from |-> p, to |-> p,
                         new |-> EmptyCell, filled |-> FALSE])
        /\ toolOut' = Some(Ok(eraser(toolGrid, p[1], p[2])))
    /\ UNCHANGED <<toolGrid, fillLoop, appVars, cliVars, fsVars, lineVars,
                   raceVars, drawVars, saveVars>>

ToolLine ==
    /\ toolCall = None
    /\ \E a \in Endpoints, b \in Endpoints, new \in ToolCells :
        /\ toolCall' = Some([tool |-> "line", from |-> a, to |-> b, new |-> new,
                         filled |-> FALSE])
        /\ toolOut' = Some(line(toolGrid, a[1], a[2], b[1], b[2],
                               new.ch, new.fg, new.bg))
    /\ UNCHANGED <<toolGrid, fillLoop, appVars, cliVars, fsVars, lineVars,
                   raceVars, drawVars, saveVars>>

ToolRectangle ==
    /\ toolCall = None
    /\ \E a \in ToolPoints, b \in ToolPoints, new \in ToolCells,
          filled \in BOOLEAN :
        /\ toolCall' = Some([tool |-> "rectangle", from |-> a, to |-> b,
                         new |-> new, filled |-> filled])
        /\ toolOut' = Some(Ok(rectangle(toolGrid, a[1], a[2], b[1], b[2],
                                       new.ch, new.fg, new.bg, filled)))
    /\ UNCHANGED <<toolGrid, fillLoop, appVars, cliVars, fsVars, lineVars,
                   raceVars, drawVars, saveVars>>

\* flood_fill is called: it returns at once or enters its loop.
ToolFloodFill ==
    /\ toolCall = None
    /\ \E p \in ToolPoints, new \in ToolCells :
        /\ toolCall' = Some([tool |-> "flood_fill", from |-> p, to |-> p,
                         new |-> new, filled |-> FALSE])
        /\ LET begun == flood_fill_begin(toolGrid, p[1], p[2],
                                         new.ch, new.fg, new.bg)
           IN /\ fillLoop' = begun.loop
              /\ toolOut' = IF begun.returned = None THEN None
                           ELSE Some(Ok(Unwrap(begun.returned)))
    /\ UNCHANGED <<toolGrid, appVars, cliVars, fsVars, lineVars,
                   raceVars, drawVars, saveVars>>

\* One turn of flood_fill's loop; the call returns its mutations when the
\* stack is empty.
FloodFillPop ==
    /\ fillLoop # None
    /\ toolOut = None
    /\ LET st == flood_fill_pop(toolGrid, Unwrap(fillLoop))
       IN /\ fillLoop' = Some(st)
          /\ toolOut' = IF st.stack = <<>> THEN Some(Ok(st.mutations))
                       ELSE None
    /\ UNCHANGED <<toolGrid, toolCall, appVars, cliVars, fsVars, lineVars,
                   raceVars, drawVars, saveVars>>

ToolNext ==
    \/ ToolPencil
    \/ ToolEraser
    \/ ToolLine
    \/ ToolRectangle
    \/ ToolFloodFill
    \/ FloodFillPop

(***************************************************************************)
(* Two CLI invocations at once on one project                              *)
(***************************************************************************)
\* The two invocations, and the inodes: the project's, the log's, and one
\* for each temporary file an invocation may create.
Procs == {1, 2}
ProjectInode == 1
LogInode == 2
TmpInode(p) == LogInode + p
Inodes == {ProjectInode, LogInode} \cup {TmpInode(p) : p \in Procs}
Paths == {ProjectPath, tmp_path(ProjectPath), log_path(ProjectPath)}

\* Each invocation is `draw pencil FILE x,y --color red` at one of these.
RacePoints == {<<0, 0>>, <<0, 1>>}

\* The file a reader finds at a path.
FileAt(path) ==
    IF names[path] = None THEN NoFile ELSE File(inodes[Unwrap(names[path])])

\* A write through a file descriptor whose offset is pos lines: the line
\* lands at the offset, over what is there; a file cut shorter than the
\* offset meanwhile is filled with a hole up to it.
RECURSIVE Holes(_)
Holes(n) == IF n <= 0 THEN <<>> ELSE Append(Holes(n - 1), Malformed)
WriteAt(lines, pos, text) ==
    IF pos < Len(lines) THEN [lines EXCEPT ![pos + 1] = text]
    ELSE Append(lines \o Holes(pos - Len(lines)), text)

\* An invocation not yet started.
NotStarted ==
    [pc |-> "start", loaded |-> NewCanvas(GridW, GridH), muts |-> <<>>,
     logLines |-> <<>>, newLines |-> <<>>,
     written |-> NewCanvas(GridW, GridH), fd |-> ProjectInode, pos |-> 0,
     result |-> Ok(<<>>)]

\* `new` has run: the project saved, the log initialised, no temporary file.
RaceInit ==
    /\ names = [path \in Paths |->
                  IF path = ProjectPath THEN Some(ProjectInode)
                  ELSE IF path = log_path(ProjectPath) THEN Some(LogInode)
                  ELSE None]
    /\ inodes = [i \in Inodes |->
                  IF i = ProjectInode
                  THEN save_to_file(NewCanvas(GridW, GridH)).lines
                  ELSE IF i = LogInode THEN init_log.lines ELSE <<>>]
    /\ procs = [p \in Procs |-> NotStarted]
    /\ renamed = <<>>

\* The invocation exits.
Done(p, result) == [procs EXCEPT ![p].pc = "done", ![p].result = result]

\* cmd_pencil: the project is read whole, the tool computes its mutations
\* from it and the project is dropped.
RaceLoad ==
    \E p \in Procs :
        /\ procs[p].pc = "start"
        /\ \E at \in RacePoints :
            With(load_project(FileAt(ProjectPath)), LAMBDA loaded :
              procs' = IF ~loaded.ok THEN Done(p, loaded)
                       ELSE [procs EXCEPT
                               ![p].pc = "reload",
                               ![p].muts = pencil(loaded.value, at[1], at[2],
                                                  FULL, Some(Red), None)])
        /\ UNCHANGED <<names, inodes, renamed>>
        /\ UNCHANGED <<appVars, cliVars, fsVars, lineVars, toolVars, drawVars, saveVars>>

\* apply_and_save, load_project: the project is read again.
RaceReload ==
    \E p \in Procs :
        /\ procs[p].pc = "reload"
        /\ With(load_project(FileAt(ProjectPath)), LAMBDA loaded :
              procs' = IF ~loaded.ok THEN Done(p, loaded)
                       ELSE [procs EXCEPT ![p].pc = "append",
                                          ![p].loaded = loaded.value])
        /\ UNCHANGED <<names, inodes, renamed>>
        /\ UNCHANGED <<appVars, cliVars, fsVars, lineVars, toolVars, drawVars, saveVars>>

\* apply_and_save: the mutations are applied in memory, and oplog::append
\* reads the log when there is something to record.
RaceAppend ==
    \E p \in Procs :
        /\ procs[p].pc = "append"
        /\ With(apply_and_save(procs[p].loaded, FileAt(log_path(ProjectPath)), p,
                               "pencil", procs[p].muts, "Off", FALSE), LAMBDA r :
             procs' = IF ~r.result.ok THEN Done(p, r.result)
                      ELSE [procs EXCEPT
                              ![p].pc = IF r.recorded # <<>> THEN "log_create"
                                        ELSE "save",
                              ![p].logLines = r.logfile.lines,
                              ![p].written = r.project,
                              ![p].newLines = ProjectLines(r.project)])
        /\ UNCHANGED <<names, inodes, renamed>>
        /\ UNCHANGED <<appVars, cliVars, fsVars, lineVars, toolVars, drawVars, saveVars>>

\* write_raw, File::create: the log is truncated in place.
RaceLogCreate ==
    \E p \in Procs :
        /\ procs[p].pc = "log_create"
        /\ inodes' = [inodes EXCEPT ![LogInode] = <<>>]
        /\ procs' = [procs EXCEPT ![p].pc = "log_write", ![p].fd = LogInode,
                                  ![p].pos = 0]
        /\ UNCHANGED <<names, renamed>>
        /\ UNCHANGED <<appVars, cliVars, fsVars, lineVars, toolVars, drawVars, saveVars>>

\* write_raw, each writeln!.
RaceLogWriteLine ==
    \E p \in Procs :
        /\ procs[p].pc = "log_write"
        /\ inodes' = [inodes EXCEPT ![LogInode] =
                        WriteAt(@, procs[p].pos, procs[p].logLines[procs[p].pos + 1])]
        /\ procs' = [procs EXCEPT
                       ![p].pos = @ + 1,
                       ![p].pc = IF procs[p].pos + 1 = Len(procs[p].logLines)
                                 THEN "save" ELSE "log_write"]
        /\ UNCHANGED <<names, renamed>>
        /\ UNCHANGED <<appVars, cliVars, fsVars, lineVars, toolVars, drawVars, saveVars>>

\* atomic_save, save_to_file: FILE.kaku.tmp is created, or opened and
\* truncated when it is there already.
RaceSaveCreate ==
    \E p \in Procs :
        /\ procs[p].pc = "save"
        /\ LET tmp == tmp_path(ProjectPath)
               fd == IF names[tmp] = None THEN TmpInode(p) ELSE Unwrap(names[tmp])
           IN /\ names' = [names EXCEPT ![tmp] = Some(fd)]
              /\ inodes' = [inodes EXCEPT ![fd] = <<>>]
              /\ procs' = [procs EXCEPT ![p].pc = "save_write", ![p].fd = fd,
                                        ![p].pos = 0]
        /\ UNCHANGED renamed
        /\ UNCHANGED <<appVars, cliVars, fsVars, lineVars, toolVars, drawVars, saveVars>>

\* atomic_save, save_to_file: one more piece written through the open file.
RaceSaveWriteLine ==
    \E p \in Procs :
        /\ procs[p].pc = "save_write"
        /\ inodes' = [inodes EXCEPT ![procs[p].fd] =
                        WriteAt(@, procs[p].pos, procs[p].newLines[procs[p].pos + 1])]
        /\ procs' = [procs EXCEPT
                       ![p].pos = @ + 1,
                       ![p].pc = IF procs[p].pos + 1 = Len(procs[p].newLines)
                                 THEN "rename" ELSE "save_write"]
        /\ UNCHANGED <<names, renamed>>
        /\ UNCHANGED <<appVars, cliVars, fsVars, lineVars, toolVars, drawVars, saveVars>>

\* atomic_save, std::fs::rename: FILE.kaku.tmp replaces the project in one
\* step and the replaced inode is freed; with no FILE.kaku.tmp the rename
\* fails and the invocation exits with the error.
RaceRename ==
    \E p \in Procs :
        /\ procs[p].pc = "rename"
        /\ LET tmp == tmp_path(ProjectPath)
           IN IF names[tmp] = None
              THEN /\ procs' = Done(p, Err("No such file or directory"))
                   /\ UNCHANGED <<names, inodes, renamed>>
              ELSE /\ names' = [names EXCEPT ![ProjectPath] = names[tmp],
                                             ![tmp] = None]
                   /\ inodes' = [inodes EXCEPT
                                   ![Unwrap(names[ProjectPath])] = <<>>]
                   /\ renamed' = Append(renamed, p)
                   /\ procs' = Done(p, Ok(<<>>))
        /\ UNCHANGED <<appVars, cliVars, fsVars, lineVars, toolVars, drawVars, saveVars>>

RaceNext ==
    \/ RaceLoad
    \/ RaceReload
    \/ RaceAppend
    \/ RaceLogCreate
    \/ RaceLogWriteLine
    \/ RaceSaveCreate
    \/ RaceSaveWriteLine
    \/ RaceRename

(***************************************************************************)
(* CLI draw commands with the coordinate they were given                   *)
(***************************************************************************)
\* Coordinates on the grid and off it, to the right, below and both.
DrawPoints == {<<0, 0>>, <<GridW, 0>>, <<0, GridH>>, <<GridW + 1, GridH>>}

\* No draw command given yet.
NoDraw == asked = None

\* draw pencil FILE X,Y --color red [--symmetry S] [--no-log]
DrawPencil ==
    /\ nDraws < MaxDraws
    /\ \E p \in DrawPoints, sym \in CliSymmetry, no_log \in BOOLEAN :
        /\ asked' = Some([tool |-> "pencil", at |-> p])
        /\ IF validate_coords(p[1], p[2], project)
           THEN DrawWith("pencil",
                         pencil(project, p[1], p[2], FULL, Some(Red), None),
                         sym, no_log)
           ELSE DrawRefused
    /\ UNCHANGED <<cliLong, appVars, fsVars, lineVars, toolVars, raceVars,
                   saveVars>>

\* draw eraser FILE X,Y
DrawEraser ==
    /\ nDraws < MaxDraws
    /\ \E p \in DrawPoints :
        /\ asked' = Some([tool |-> "eraser", at |-> p])
        /\ IF validate_coords(p[1], p[2], project)
           THEN DrawWith("eraser", eraser(project, p[1], p[2]), "Off", FALSE)
           ELSE DrawRefused
    /\ UNCHANGED <<cliLong, appVars, fsVars, lineVars, toolVars, raceVars,
                   saveVars>>

\* draw fill FILE X,Y --color red
DrawFill ==
    /\ nDraws < MaxDraws
    /\ \E p \in DrawPoints :
        /\ asked' = Some([tool |-> "fill", at |-> p])
        /\ IF validate_coords(p[1], p[2], project)
           THEN DrawWith("fill",
                         flood_fill(project, p[1], p[2], FULL, Some(Red), None),
                         "Off", FALSE)
           ELSE DrawRefused
    /\ UNCHANGED <<cliLong, appVars, fsVars, lineVars, toolVars, raceVars,
                   saveVars>>

DrawNext ==
    \/ DrawPencil
    \/ DrawEraser
    \/ DrawFill

(***************************************************************************)
(* Saving and auto-saving in the interactive session                       *)
(***************************************************************************)
\* tick_auto_save fires do_auto_save at this many ticks.
AUTO_SAVE_TICKS == 600

\* The session is followed until it has written this many autosave files.
MaxAutosaves == 1

\* File names as their parts: a stem, then extensions.
Untitled == <<"untitled">>
KAKU == ".kaku"
AUTOSAVE == ".autosave"

\* What the user types into the Save As dialog.
SaveNames == {Untitled, <<"art">>, <<"art", KAKU>>}

\* save_as: the file name of a typed name, and the project name.
kaku_filename(name) == IF Last(name) = KAKU THEN name ELSE Append(name, KAKU)
trim_kaku(name) == IF Last(name) = KAKU THEN Front(name) ELSE name

\* format!("{}.autosave", path), and the name used when there is no path.
autosave_of(path) == Append(path, AUTOSAVE)
untitled_autosave == <<"untitled", KAKU, AUTOSAVE>>

\* The files the session can touch.
SaveFiles ==
    {kaku_filename(n) : n \in SaveNames}
        \cup {autosave_of(kaku_filename(n)) : n \in SaveNames}

\* App::new() in an empty directory.
SaveInit ==
    /\ session = [project_name |-> None, project_path |-> None,
                  auto_save_ticks |-> 0, mode |-> "Normal",
                  tool_state |-> Idle]
    /\ stored = [f \in SaveFiles |-> NoFile]
    /\ autosaved = {}
    /\ saveLast = [op |-> "new", ok |-> TRUE]

\* Project::new(name, canvas, ..).save_to_file(path): the file written, or
\* an I/O error that leaves the directory as it was.
WriteProject(files, path, c, io_ok) ==
    IF io_ok THEN [files EXCEPT ![path] = save_to_file(c)] ELSE files

\* App::save_project: the session, the files, dirty and the returned flag.
save_project(sess, files, c, d, io_ok) ==
    IF sess.project_path = None
    THEN [session |-> sess, stored |-> files, dirty |-> d, ret |-> FALSE]
    ELSE LET path == Unwrap(sess.project_path)
         IN IF io_ok
            THEN [session |-> [sess EXCEPT !.auto_save_ticks = 0],
                  stored |-> [WriteProject(files, path, c, TRUE)
                                EXCEPT ![autosave_of(path)] = NoFile],
                  dirty |-> FALSE,
                  ret |-> TRUE]
            ELSE [session |-> sess, stored |-> files, dirty |-> d,
                  ret |-> FALSE]

\* App::save_as.
save_as(sess, files, c, d, name, io_ok) ==
    save_project([sess EXCEPT !.project_name = Some(trim_kaku(name)),
                              !.project_path = Some(kaku_filename(name))],
                 files, c, d, io_ok)

\* The event loop's tick: tick_auto_save, and do_auto_save at the
\* threshold.
Tick ==
    /\ dirty
    /\ Cardinality(autosaved) < MaxAutosaves
    /\ IF session.auto_save_ticks + 1 >= AUTO_SAVE_TICKS
       THEN \E io_ok \in BOOLEAN :
              LET path == IF session.project_path # None
                          THEN autosave_of(Unwrap(session.project_path))
                          ELSE untitled_autosave
              IN /\ session' = [session EXCEPT !.auto_save_ticks = 0]
                 /\ stored' = WriteProject(stored, path, canvas, io_ok)
                 /\ autosaved' = IF io_ok THEN autosaved \cup {path}
                                 ELSE autosaved
       ELSE /\ session' = [session EXCEPT !.auto_save_ticks = @ + 1]
            /\ UNCHANGED <<stored, autosaved>>
    /\ saveLast' = [op |-> "tick", ok |-> TRUE]
    /\ UNCHANGED <<appVars, cliVars, fsVars, lineVars, toolVars, raceVars,
                   drawVars>>

\* handle_key, Ctrl+S: save_project; when it returns false the Save As
\* dialog opens.
KeySave ==
    /\ session.mode = "Normal"
    /\ \E io_ok \in BOOLEAN :
        LET r == save_project(session, stored, canvas, dirty, io_ok)
        IN /\ session' = IF r.ret THEN r.session
                         ELSE [r.session EXCEPT !.mode = "SaveAs"]
           /\ stored' = r.stored
           /\ dirty' = r.dirty
           /\ saveLast' = [op |-> "save_project", ok |-> r.ret]
    /\ UNCHANGED <<canvas, history, last, shape, nOps, nCommits, strokeStart,
                   longRun, autosaved, cliVars, fsVars, lineVars, toolVars,
                   raceVars, drawVars>>

\* Enter in the Save As dialog: back to Normal mode, save_as(name).
SaveAsEnter ==
    /\ session.mode = "SaveAs"
    /\ \E name \in SaveNames, io_ok \in BOOLEAN :
        LET r == save_as([session EXCEPT !.mode = "Normal"], stored, canvas,
                         dirty, name, io_ok)
        IN /\ session' = r.session
           /\ stored' = r.stored
           /\ dirty' = r.dirty
           /\ saveLast' = [op |-> "save_as", ok |-> r.ret]
    /\ UNCHANGED <<canvas, history, last, shape, nOps, nCommits, strokeStart,
                   longRun, autosaved, cliVars, fsVars, lineVars, toolVars,
                   raceVars, drawVars>>

\* A drag that changes the cell under it: the pencil on an empty cell, the
\* eraser on a drawn one.
SaveDrag ==
    Drag({IF canvas.cells[<<0, 0>>] = EmptyCell THEN "Pencil" ELSE "Eraser"},
         {"Off"})

SaveNext ==
    \/ SaveDrag
    \/ Tick
    \/ KeySave
    \/ SaveAsEnter

vars == <<canvas, history, last, shape, nOps, nCommits, strokeStart, longRun,
          project, logfile, cliLast, snap, pre, nAppends, truncated, mirrored, nDraws,
          unlogged, cliLong, disk, run, done, atStart, target, hadLog, nRuns,
          nCrashes, nCorrupt, lineFrom, lineTo, forward, backward,
          toolGrid, toolCall, toolOut, fillLoop, names, inodes, procs,
          renamed, asked, dirty, session, stored, autosaved, saveLast>>

\* The interactive session, short runs and long runs; no CLI invocation.
HistInit ==
    AppInit(BOOLEAN) /\ CliInit({FALSE}) /\ FsInit /\ NoLine /\ NoTool
    /\ RaceInit /\ NoDraw /\ SaveInit

SpecHist == HistInit /\ [][AppNext]_vars

\* CLI invocations on a project, short runs and long runs; no session.
LogInit ==
    CliInit(BOOLEAN) /\ AppInit({FALSE}) /\ FsInit /\ NoLine /\ NoTool
    /\ RaceInit /\ NoDraw /\ SaveInit

SpecCli == LogInit /\ [][CliNext]_vars

\* CLI invocations step by step on the files of one project, with crashes
\* and damage to the log.
FilesInit ==
    FsInit /\ CliInit({FALSE}) /\ AppInit({FALSE}) /\ NoLine /\ NoTool
    /\ RaceInit /\ NoDraw /\ SaveInit

SpecFiles == FilesInit /\ [][FsNext]_vars

\* bresenham_line on every pair of endpoints, in both directions.
LinesInit ==
    LineInit /\ AppInit({FALSE}) /\ CliInit({FALSE}) /\ FsInit /\ NoTool
    /\ RaceInit /\ NoDraw /\ SaveInit

SpecLines == LinesInit /\ [][LineNext]_vars

\* One call of a drawing tool on a grid.
ToolsInit ==
    ToolInit /\ AppInit({FALSE}) /\ CliInit({FALSE}) /\ FsInit /\ NoLine
    /\ RaceInit /\ NoDraw /\ SaveInit

SpecTools == ToolsInit /\ [][ToolNext]_vars

\* Two `draw` invocations started together on a fresh project.
RacesInit ==
    RaceInit /\ AppInit({FALSE}) /\ CliInit({FALSE}) /\ FsInit /\ NoLine
    /\ NoTool /\ NoDraw /\ SaveInit

SpecRace == RacesInit /\ [][RaceNext]_vars

\* CLI draw commands on a fresh project, on and off the grid.
DrawInit ==
    CliInit({FALSE}) /\ AppInit({FALSE}) /\ FsInit /\ NoLine /\ NoTool
    /\ RaceInit /\ asked = None /\ SaveInit

SpecDraw == DrawInit /\ [][DrawNext]_vars

\* The interactive session editing, ticking and saving in an empty
\* directory.
SavesInit ==
    SaveInit /\ AppInit({FALSE}) /\ CliInit({FALSE}) /\ FsInit /\ NoLine
    /\ NoTool /\ RaceInit /\ NoDraw

SpecSave == SavesInit /\ [][SaveNext]_vars

\* The interactive session clicking with Fill, Line and Rectangle.
ShapesInit ==
    AppInit({FALSE}) /\ SaveInit /\ CliInit({FALSE}) /\ FsInit /\ NoLine
    /\ NoTool /\ RaceInit /\ NoDraw

SpecShape == ShapesInit /\ [][ShapeNext]_vars

\* The interactive session's strokes, undos and redos in any order; no
\* resize.
StrokeNext ==
    \/ MouseDown
    \/ MouseDrag
    \/ MouseUp
    \/ KeyUndo
    \/ KeyRedo

StrokesInit ==
    AppInit({FALSE}) /\ SaveInit /\ CliInit({FALSE}) /\ FsInit /\ NoLine
    /\ NoTool /\ RaceInit /\ NoDraw

SpecStroke == StrokesInit /\ [][StrokeNext]_vars

(***************************************************************************)
(* Properties                                                              *)
(***************************************************************************)

\* The session has only committed and then only undone, and the last undo
\* returned false.
UndoneToExhaustion ==
    shape = "undos" /\ last.op = "undo" /\ ~last.ret

\* C1 (in-memory inversion law, within the history cap): after at most
\* MAX_HISTORY committed actions, undoing until undo returns false leaves
\* the grid equal to the grid before the first of them.
C1_UndoAllRestores ==
    (UndoneToExhaustion /\ nCommits <= MAX_HISTORY) => canvas = canvas0

\* C1 witness: exactly MAX_HISTORY actions were committed and all undone.
C1_Witness ==
    UndoneToExhaustion /\ nCommits = MAX_HISTORY /\ canvas = canvas0

\* C1 as stated, for a sequence of any length: undoing until undo returns
\* false restores the grid before the sequence.
C1_AnyLength == UndoneToExhaustion => canvas = canvas0

\* Every draw so far was logged and drawn without symmetry.
PlainLog == ~unlogged /\ ~mirrored

\* C2 (CLI multi-undo inversion): after a successful `undo --count k` with
\* k >= 1, the grid in the project file equals the grid before the last
\* min(k, pointer) applied operations, also when several of them touched
\* the same cell.
C2_MultiUndoRestores ==
    (cliLast.op = "undo" /\ cliLast.ok /\ cliLast.count >= 1 /\ PlainLog)
        => project = pre[Log(logfile).header.pointer + 1]

\* C3 (in-memory redo idempotence): whenever History::undo returns true, a
\* History::redo called right after it returns true and leaves the grid,
\* dimensions and cells, as it was just before that undo.
C3_RedoAfterUndo ==
    [][(last'.op = "undo" /\ last'.ret)
        => LET r == redo(history', canvas')
           IN r.ret /\ r.canvas = canvas]_vars

\* C4 (CLI redo after undo): `redo --count k` run right after a successful
\* `undo --count k` (1 <= k <= pointer) succeeds, returns the entries the
\* undo returned, and leaves the saved grid and the log pointer as they were
\* before the undo.
C4_RedoRestores ==
    (/\ snap # None
     /\ Unwrap(snap).phase = "redone"
     /\ cliLast.op = "redo"
     /\ cliLast.count = Unwrap(snap).count
     /\ Unwrap(snap).count >= 1
     /\ Unwrap(snap).count <= Unwrap(snap).pointer
     /\ PlainLog)
        => /\ cliLast.ok
           /\ cliLast.returned = Unwrap(snap).returned
           /\ project = Unwrap(snap).project
           /\ Log(logfile).header.pointer = Unwrap(snap).pointer

\* The `old` of the first mutation of muts at the coordinate of muts[i].
FirstOld(muts, i) ==
    LET j == CHOOSE j \in 1..i :
                /\ muts[j].x = muts[i].x /\ muts[j].y = muts[i].y
                /\ \A k \in 1..(j - 1) :
                      ~(muts[k].x = muts[i].x /\ muts[k].y = muts[i].y)
    IN muts[j].old

\* C5 (stroke atomicity): end_stroke on a stroke of N >= 1 pushed mutations
\* puts exactly one action on the undo stack, holding the N mutations, and
\* one undo takes that action off again, returns every cell the stroke
\* touched to the `old` of the first mutation that touched it and leaves
\* the other cells alone; when only the stroke changed the grid since it
\* began, that undo gives back the grid the stroke began on.
C5_StrokeIsOneAction ==
    [][(last'.op = "up" /\ history.pending # None
            /\ Unwrap(history.pending) # <<>>)
        => LET muts == Unwrap(history.pending)
               r == undo(history', canvas')
           IN /\ history'.pending = None
              /\ Len(history'.undo_stack) = Len(history.undo_stack) + 1
              /\ Front(history'.undo_stack) = history.undo_stack
              /\ Last(history'.undo_stack) = CellChange(muts)
              /\ r.ret
              /\ r.history.undo_stack = history.undo_stack
              /\ strokeStart # None => r.canvas = Unwrap(strokeStart)
              /\ \A i \in 1..Len(muts) :
                    CanvasGet(canvas, muts[i].x, muts[i].y) # None
                        => CanvasGet(r.canvas, muts[i].x, muts[i].y)
                               = Some(FirstOld(muts, i))
              /\ \A c \in DOMAIN canvas.cells :
                    (\A i \in 1..Len(muts) : c # <<muts[i].x, muts[i].y>>)
                        => r.canvas.cells[c] = canvas.cells[c]]_vars

\* C5 witness: a stroke of two or more mutations has just been committed
\* as one action, and undoing it changes the grid.
C5_Witness ==
    /\ last.op = "up"
    /\ history.undo_stack # <<>>
    /\ Last(history.undo_stack).kind = "CellChange"
    /\ Len(Last(history.undo_stack).mutations) >= 2
    /\ undo(history, canvas).canvas # canvas
    /\ undo(history, canvas).canvas = canvas0

\* C6 (in-memory redo-clear law): a handler that committed at least one
\* action leaves the redo stack empty, whatever undos came before, so the
\* next redo returns false and leaves the grid as it is.
C6_CommitClearsRedo ==
    last.commits > 0
        => /\ history.redo_stack = <<>>
           /\ ~redo(history, canvas).ret
           /\ redo(history, canvas).canvas = canvas

\* C6 witness: an action was committed while undone actions were waiting
\* on the redo stack.
C6_Witness ==
    last.commits > 0 /\ last.redoBefore > 0 /\ history.redo_stack = <<>>

\* The last invocation was a draw that wrote an entry to the log.
LoggedDraw ==
    cliLast.op = "draw" /\ cliLast.ok /\ ~cliLast.no_log
        /\ cliLast.returned # <<>>

\* C7 (persisted redo-clear law): a logged draw on a log whose pointer is
\* below total keeps the entries below the pointer, discards the others,
\* appends its own entry and writes pointer = total = the new length, so
\* push_for_redo then fails with "Nothing to redo" for every count.
C7_AppendDiscardsUndone ==
    [][(LoggedDraw' /\ Log(logfile).header.pointer < Log(logfile).header.total)
        => LET p == Log(logfile).header.pointer
               n == Len(Log(logfile').entries)
           IN /\ n = p + 1
              /\ SubSeq(Log(logfile').entries, 1, p) = SubSeq(Log(logfile).entries, 1, p)
              /\ Log(logfile').entries[n].timestamp = nDraws'
              /\ Log(logfile').entries[n].mutations
                    = make_entry(nDraws', "", cliLast'.returned).mutations
              /\ Log(logfile').header = LogHeader(n, n)
              /\ \A count \in Counts :
                    push_for_redo(logfile', count)
                        = [file |-> logfile', result |-> Err("Nothing to redo")]
      ]_vars

\* C7 witness: a logged draw has just run on a log that held undone
\* entries, and none is left.
C7_Witness ==
    /\ LoggedDraw
    /\ cliLast.undone > 0
    /\ Log(logfile).header.pointer = Log(logfile).header.total
    /\ Log(logfile).header.pointer >= 2

\* C8 (symmetry keeps mutations invertible), CLI front end: every mutation
\* a draw records after symmetry expansion carries as `old` the value the
\* saved grid held at that mutation's own coordinate before the draw.
C8_RecordedOldIsPrior ==
    [][(cliLast'.op = "draw" /\ cliLast'.ok)
        => \A i \in 1..Len(cliLast'.returned) :
              LET m == cliLast'.returned[i]
              IN CanvasGet(project, m.x, m.y) = Some(m.old)]_vars

\* C9 (log pointer bound): the header of the log always satisfies
\* 0 <= pointer <= total, whatever counts undo and redo are run with.
C9_PointerWithinBounds ==
    /\ 0 <= Log(logfile).header.pointer
    /\ Log(logfile).header.pointer <= Log(logfile).header.total

\* C9 witness: an undo asked for more entries than were applied and
\* stopped at pointer 0, with entries left to redo.
C9_Witness ==
    /\ cliLast.op = "undo" /\ cliLast.ok
    /\ cliLast.count > Len(cliLast.returned)
    /\ Log(logfile).header.pointer = 0
    /\ Log(logfile).header.total >= 1

\* The log holds exactly the MAX_LOG_ENTRIES entries appended last, oldest
\* first, and none of them is undone. (Entries carry the number of the draw
\* that appended them as their timestamp.)
HoldsNewestEntries ==
    /\ Len(Log(logfile).entries) = MAX_LOG_ENTRIES
    /\ \A i \in 1..MAX_LOG_ENTRIES :
          Log(logfile).entries[i].timestamp = nAppends - MAX_LOG_ENTRIES + i
    /\ Log(logfile).header = LogHeader(MAX_LOG_ENTRIES, MAX_LOG_ENTRIES)

\* An append that dropped entries from the front of the log found no undone
\* entry in it and dropped the oldest entry only.
PruningSparesUndone ==
    (LoggedDraw' /\ Log(logfile).header.pointer + 1 > Len(Log(logfile').entries))
        => /\ Log(logfile).header.pointer = Len(Log(logfile).entries)
           /\ Front(Log(logfile').entries) = Tail(Log(logfile).entries)

\* C10 (log pruning, appends that discard nothing undone): once more than
\* MAX_LOG_ENTRIES entries have been appended, none of the appends having
\* discarded undone entries, the log after an append holds exactly the
\* MAX_LOG_ENTRIES most recently appended entries in append order with
\* pointer = total = MAX_LOG_ENTRIES; and pruning never removes an undone
\* entry.
C10_PruningKeepsNewest ==
    /\ []((LoggedDraw /\ nAppends > MAX_LOG_ENTRIES /\ ~truncated)
            => HoldsNewestEntries)
    /\ [][PruningSparesUndone]_vars

\* C10 witness: the append after the cap was reached has just pruned the
\* oldest entry.
C10_Witness ==
    /\ LoggedDraw /\ nAppends = MAX_LOG_ENTRIES + 1 /\ ~truncated
    /\ Log(logfile).entries[1].timestamp = 2
    /\ Log(logfile).entries[MAX_LOG_ENTRIES].timestamp = MAX_LOG_ENTRIES + 1

\* C10 as stated, for any more than MAX_LOG_ENTRIES appends: the log holds
\* the MAX_LOG_ENTRIES most recently appended entries.
C10_AfterAnyAppends ==
    (LoggedDraw /\ nAppends > MAX_LOG_ENTRIES) => HoldsNewestEntries

\* A handler that committed one action on a full undo stack discarded the
\* oldest action and kept the others below the new one.
CommitAtCapDropsOldest ==
    (last'.commits = 1 /\ Len(history.undo_stack) = MAX_HISTORY)
        => /\ Len(history'.undo_stack) = MAX_HISTORY
           /\ Front(history'.undo_stack) = Tail(history.undo_stack)

\* C11 (History cap): the undo stack never holds more than MAX_HISTORY
\* actions, and a commit that would exceed the cap discards the oldest
\* action.
C11_HistoryCapped ==
    /\ [](Len(history.undo_stack) <= MAX_HISTORY)
    /\ [][CommitAtCapDropsOldest]_vars

\* C11 witness: one more action than the cap has been committed and the
\* stack is full.
C11_Witness ==
    /\ nCommits = MAX_HISTORY + 1
    /\ last.commits = 1
    /\ Len(history.undo_stack) = MAX_HISTORY

\* C12 (crash-safe grid save): at every step of a draw, undo or redo
\* invocation, and after a kill at any step, the project file at its real
\* path loads, and loads as the grid from before the invocation or as the
\* grid the invocation computed.
C12_GridSaveCrashSafe ==
    With(load_project(disk[ProjectPath]), LAMBDA grid :
        grid.ok /\ grid.value \in {atStart, target})

\* C12 witness: an invocation that changes the grid was killed inside
\* atomic_save with the temporary file half written; the project file still
\* holds the grid from before.
C12_Witness ==
    /\ done.result = Err("killed")
    /\ target # atStart
    /\ disk[tmp_path(ProjectPath)].exists
    /\ Len(disk[tmp_path(ProjectPath)].lines) \in 1..(Len(ProjectLines(target)) - 1)
    /\ load_project(disk[ProjectPath]) = Ok(atStart)

\* A log written whole: the header line, then exactly header.total entry
\* lines.
WholeLog(file) ==
    /\ file.exists
    /\ file.lines # <<>>
    /\ Head(file.lines).kind = "header"
    /\ Len(file.lines) = 1 + Head(file.lines).header.total
    /\ \A i \in 2..Len(file.lines) : file.lines[i].kind = "entry"

\* C13 (log durability discipline): at no step, a kill in the middle of a
\* write included, does a reader find the log truncated, empty, or holding a
\* header with only part of its entries (damage from outside set aside).
C13_LogNeverPartial ==
    nCorrupt = 0 => WholeLog(disk[log_path(ProjectPath)])

\* The header line parses and some line after it does not.
HasMalformedEntry(file) ==
    /\ file.exists
    /\ file.lines # <<>>
    /\ Head(file.lines).kind = "header"
    /\ \E i \in 2..Len(file.lines) : file.lines[i].kind = "malformed"

\* The result is the abort of the process: a slice out of range or an
\* arithmetic underflow.
Panicked(result) == result = Err("panic")

\* C14 (partial-corruption tolerance): when entry lines of the log are
\* malformed, reading skips them and keeps the rest, and append, pop_for_undo
\* and push_for_redo then complete without a slice out of range or an
\* underflow and leave pointer <= the number of surviving entries. Here
\* for a log damaged between invocations, none of which was killed.
C14_MalformedEntriesTolerated ==
    (run = None /\ nCrashes = 0 /\ HasMalformedEntry(disk[log_path(ProjectPath)]))
        => With(disk[log_path(ProjectPath)], LAMBDA file :
            /\ read_raw(file).ok
            /\ \A count \in 1..MaxCount :
                /\ ~Panicked(pop_for_undo(file, count).result)
                /\ ~Panicked(push_for_redo(file, count).result)
                /\ \A after \in {pop_for_undo(file, count).file,
                                 push_for_redo(file, count).file,
                                 append(file, make_entry(nRuns + 1, "pencil",
                                                         <<>>)).file} :
                      Log(after).header.pointer <= Len(Log(after).entries))

\* The file exists, is not empty, and its first line is no header.
HeaderCorrupt(file) ==
    file.exists /\ file.lines # <<>> /\ Head(file.lines).kind # "header"

\* Each function of the log returns InvalidData and leaves the file alone.
AllRefuse(file) ==
    /\ read_log(file) = Err("InvalidData")
    /\ active_entries(file) = Err("InvalidData")
    /\ append(file, make_entry(nRuns + 1, "pencil", <<>>))
           = [file |-> file, result |-> Err("InvalidData")]
    /\ \A count \in 1..MaxCount :
        /\ pop_for_undo(file, count)
               = [file |-> file, result |-> Err("InvalidData")]
        /\ push_for_redo(file, count)
               = [file |-> file, result |-> Err("InvalidData")]

\* An invocation begun on a log with a corrupt header: the log stays as it
\* is; the invocation ends at once with InvalidData, unless it is a draw
\* that changes no cell, which never opens the log and goes on to save.
RefusedWhenHeaderCorrupt ==
    (HeaderCorrupt(disk[log_path(ProjectPath)]) /\ nRuns' = nRuns + 1)
        => /\ disk' = disk
           /\ run' = None => done'.result = Err("InvalidData")
           /\ run' # None => /\ Unwrap(run').cmd = "draw"
                             /\ Unwrap(run').pc = "save"

\* C15 (corrupt header is fatal): when the first line of an existing,
\* non-empty log does not parse as a header, read_log, active_entries,
\* append, pop_for_undo and push_for_redo all return an InvalidData error
\* and leave the log file unchanged.
C15_CorruptHeaderFatal ==
    /\ [](HeaderCorrupt(disk[log_path(ProjectPath)])
            => AllRefuse(disk[log_path(ProjectPath)]))
    /\ [][RefusedWhenHeaderCorrupt]_vars

\* C15 witness: an undo was run on a log whose header line is corrupt; it
\* ended with InvalidData and the log still holds its entry line.
C15_Witness ==
    /\ HeaderCorrupt(disk[log_path(ProjectPath)])
    /\ disk[log_path(ProjectPath)] = hadLog
    /\ Len(hadLog.lines) >= 2
    /\ done = [cmd |-> "undo", result |-> Err("InvalidData")]


\* One undo invocation on a log with pointer p > 0: the pointer written is
\* p - min(count, p), the entries stay, and the entries returned are those
\* at [p - min(count, p), p), which are the entries that left the active
\* range.
PopResult ==
    (cliLast'.op = "undo" /\ Log(logfile).header.pointer > 0)
        => With(Log(logfile), LAMBDA log :
           With(Log(logfile'), LAMBDA after :
           LET p == log.header.pointer
               m == Min(cliLast'.count, p)
           IN /\ cliLast'.ok
              /\ after.header.pointer = p - m
              /\ after.entries = log.entries
              /\ Len(cliLast'.returned) = m
              /\ \A i \in 1..m : cliLast'.returned[i] = log.entries[p - m + i]
              /\ SubSeq(log.entries, 1, p)
                     = SubSeq(after.entries, 1, after.header.pointer)
                       \o cliLast'.returned))

\* C16 (pop_for_undo result): with pointer p > 0, pop_for_undo(count) writes
\* pointer p - min(count, p) and returns exactly the min(count, p) entries
\* that were at indices [p - min(count, p), p), and no others.
C16_PopReturnsLeavingEntries == [][PopResult]_vars

\* C16 witness: undo --count 2 on a log of three active entries returned
\* the second and third and left the pointer at 1.
C16_Witness ==
    /\ cliLast.op = "undo" /\ cliLast.ok /\ cliLast.count = 2
    /\ snap # None /\ Unwrap(snap).pointer = 3
    /\ Log(logfile).header.pointer = 1
    /\ cliLast.returned = SubSeq(Log(logfile).entries, 2, 3)

\* One redo invocation on a log with u = total - pointer > 0 undone entries:
\* the pointer written is pointer + min(count, u), the entries stay, and the
\* entries returned are those at [pointer, pointer + min(count, u)) in log
\* order, the one undone last first.
PushResult ==
    (cliLast'.op = "redo"
     /\ Log(logfile).header.total - Log(logfile).header.pointer > 0)
        => With(Log(logfile), LAMBDA log :
           With(Log(logfile'), LAMBDA after :
           LET p == log.header.pointer
               m == Min(cliLast'.count, log.header.total - p)
           IN /\ cliLast'.ok
              /\ after.header.pointer = p + m
              /\ after.entries = log.entries
              /\ Len(cliLast'.returned) = m
              /\ \A i \in 1..m : cliLast'.returned[i] = log.entries[p + i]
              /\ SubSeq(after.entries, 1, after.header.pointer)
                     = SubSeq(log.entries, 1, p) \o cliLast'.returned))

\* C17 (push_for_redo result): with u = total - pointer > 0 undone entries,
\* push_for_redo(count) writes pointer + min(count, u) and returns exactly
\* the entries at the old indices [pointer, pointer + min(count, u)) in log
\* order.
C17_PushReturnsReactivated == [][PushResult]_vars

\* C17 witness: with two entries undone, redo --count 1 returned the entry
\* at the old pointer, the one undone last, and not the one after it.
C17_Witness ==
    /\ cliLast.op = "redo" /\ cliLast.ok /\ cliLast.count = 1
    /\ cliLast.undone = 2
    /\ Log(logfile).header.pointer = Log(logfile).header.total - 1
    /\ cliLast.returned
           = <<Log(logfile).entries[Log(logfile).header.pointer]>>
    /\ Log(logfile).entries[Log(logfile).header.pointer]
           # Log(logfile).entries[Log(logfile).header.total]

\* The entries of a log as the actions of a session: each entry a
\* CellChange of its mutations.
LogActions(entries) ==
    [i \in 1..Len(entries) |->
        CellChange([j \in 1..Len(entries[i].mutations) |->
            LET m == entries[i].mutations[j]
            IN Mutation(m.x, m.y, LogCell_to_cell(m.old),
                        LogCell_to_cell(m.new))])]

\* History::undo on an empty undo stack and History::redo on an empty redo
\* stack, whatever the other stack and the pending stroke hold: false, and
\* the grid and the history as they were.
ExhaustedHistoryUnchanged ==
    With(LogActions(Log(logfile).entries), LAMBDA actions :
    \A pending \in {None, Some(<<>>)} :
        /\ LET h == [undo_stack |-> <<>>, redo_stack |-> actions,
                     pending |-> pending]
           IN undo(h, project) = [history |-> h, canvas |-> project,
                                  ret |-> FALSE]
        /\ LET h == [undo_stack |-> actions, redo_stack |-> <<>>,
                     pending |-> pending]
           IN redo(h, project) = [history |-> h, canvas |-> project,
                                  ret |-> FALSE])

\* An undo invocation with pointer 0, a redo invocation with nothing undone:
\* the log function returns its error and the file as it was, the command
\* fails, and neither the log nor the project file is rewritten.
ExhaustedInvocationRefused ==
    /\ (cliLast'.op = "undo" /\ Log(logfile).header.pointer = 0)
        => /\ pop_for_undo(logfile, cliLast'.count)
                  = [file |-> logfile, result |-> Err("Nothing to undo")]
           /\ ~cliLast'.ok
           /\ logfile' = logfile /\ project' = project
    /\ (cliLast'.op = "redo"
        /\ Log(logfile).header.pointer = Len(Log(logfile).entries))
        => /\ push_for_redo(logfile, cliLast'.count)
                  = [file |-> logfile, result |-> Err("Nothing to redo")]
           /\ ~cliLast'.ok
           /\ logfile' = logfile /\ project' = project

\* C18 (exhaustion is reported and changes nothing): History::undo on an
\* empty undo stack and History::redo on an empty redo stack return false
\* and leave the grid and both stacks unchanged; pop_for_undo with pointer 0
\* and push_for_redo with no undone entries return an error and leave the
\* log unchanged, and the undo or redo command then fails without rewriting
\* the project file.
C18_ExhaustionChangesNothing ==
    /\ [](ExhaustedHistoryUnchanged)
    /\ [][ExhaustedInvocationRefused]_vars

\* C18 witness: every entry of a log of two has been undone and one more
\* undo was refused; the grid holds a cell drawn outside the log.
C18_Witness ==
    /\ cliLast.op = "undo" /\ ~cliLast.ok /\ cliLast.count >= 1
    /\ Log(logfile).header.pointer = 0
    /\ Log(logfile).header.total = 2
    /\ project # NewCanvas(GridW, GridH)

\* The cells that must hold the drawn cell after a draw at (x, y) on a
\* w x h grid, by symmetry mode.
MirrorsOf(mode, x, y, w, h) ==
    CASE mode = "Off" -> {<<x, y>>}
      [] mode = "Horizontal" -> {<<x, y>>, <<w - 1 - x, y>>}
      [] mode = "Vertical" -> {<<x, y>>, <<x, h - 1 - y>>}
      [] mode = "Quad" -> {<<x, y>>, <<w - 1 - x, y>>, <<x, h - 1 - y>>,
                           <<w - 1 - x, h - 1 - y>>}

\* C19 (symmetry mirror coordinates): from any grid the invocations can
\* produce, a pencil draw at an in-bounds (x, y) with Horizontal symmetry
\* leaves the drawn cell at (x, y) and (W-1-x, y); with Vertical at (x, y)
\* and (x, H-1-y); with Quad at all four.
C19_MirrorsHoldDrawnCell ==
    \A p \in Coords(project.width, project.height),
       mode \in {"Horizontal", "Vertical", "Quad"} :
        With(apply_and_save(project, logfile, nDraws + 1, "pencil",
                            pencil(project, p[1], p[2], FULL, Some(Red), None),
                            mode, FALSE), LAMBDA r :
            \A q \in MirrorsOf(mode, p[1], p[2], project.width, project.height) :
                r.project.cells[q] = MkCell(FULL, Some(Red), None))

\* The set of points of a line.
PointSet(points) == {points[i] : i \in 1..Len(points)}

\* C20 (line direction independence): for all endpoints A and B, the set of
\* points of bresenham_line(A, B) equals the set of points of
\* bresenham_line(B, A).
C20_LineDirectionIndependent ==
    (forward # None /\ backward # None
        /\ Unwrap(forward).ok /\ Unwrap(backward).ok)
        => PointSet(Unwrap(forward).value) = PointSet(Unwrap(backward).value)


\* The call returned points that run from a to b: a first, b last,
\* max(|dx|, |dy|) + 1 of them, each next to the one before in both axes.
RunsFromTo(result, a, b) ==
    /\ result.ok
    /\ LET points == result.value
       IN /\ Len(points) = Max(Abs(b[1] - a[1]), Abs(b[2] - a[2])) + 1
          /\ points[1] = a
          /\ points[Len(points)] = b
          /\ \A i \in 1..(Len(points) - 1) :
              /\ Abs(points[i + 1][1] - points[i][1]) <= 1
              /\ Abs(points[i + 1][2] - points[i][2]) <= 1

\* C21 (line endpoint inclusion): for all (x0, y0, x1, y1), bresenham_line
\* terminates and returns a list that starts with (x0, y0), ends with
\* (x1, y1), and has exactly max(|x1-x0|, |y1-y0|) + 1 points, consecutive
\* points differing by at most 1 in each axis.
C21_LineIncludesEndpoints ==
    /\ forward # None => RunsFromTo(Unwrap(forward), lineFrom, lineTo)
    /\ backward # None => RunsFromTo(Unwrap(backward), lineTo, lineFrom)

\* The four neighbours of a place.
Neighbours(p) ==
    {<<p[1] + 1, p[2]>>, <<p[1] - 1, p[2]>>, <<p[1], p[2] + 1>>, <<p[1], p[2] - 1>>}

\* The places reached and the places next to them that hold the given
\* value.
RegionStep(c, held, reached) ==
    {q \in Coords(c.width, c.height) :
        \E p \in reached :
            p = q \/ (c.cells[q] = held /\ p \in Neighbours(q))}

\* The places joined to the places reached through cells that hold the
\* given value.
RECURSIVE Region(_, _, _)
Region(c, held, reached) ==
    LET next == RegionStep(c, held, reached)
    IN IF next = reached THEN reached ELSE Region(c, held, next)

\* The places 4-connected to the seed through cells equal to the seed's.
ConnectedTo(c, seed) == Region(c, c.cells[seed], {seed})

MutationPlaces(ms) == {<<ms[i].x, ms[i].y>> : i \in 1..Len(ms)}

NoPlaceTwice(ms) ==
    \A i, j \in 1..Len(ms) :
        (ms[i].x = ms[j].x /\ ms[i].y = ms[j].y) => i = j

\* The call in hand is of the given tool and has returned.
Returned(tool) ==
    /\ toolCall # None
    /\ Unwrap(toolCall).tool = tool
    /\ toolOut # None

InGrid(c, p) == p[1] < c.width /\ p[2] < c.height

\* C22 (flood fill boundary): every mutation flood_fill returns is at a
\* cell 4-connected to the seed through cells whose value equals the
\* seed's value; no other cell is modified, and no coordinate is emitted
\* more than once.
C22_FloodFillStaysInRegion ==
    Returned("flood_fill") =>
        LET seed == Unwrap(toolCall).from
            ms == Unwrap(toolOut).value
        IN /\ Unwrap(toolOut).ok
           /\ NoPlaceTwice(ms)
           /\ IF InGrid(toolGrid, seed)
              THEN MutationPlaces(ms) \subseteq ConnectedTo(toolGrid, seed)
              ELSE ms = <<>>

\* C22 witness: the seed is enclosed by red cells; the fill returned the
\* seed alone although an empty cell lies beyond the border.
C22_Witness ==
    /\ Returned("flood_fill")
    /\ Unwrap(toolCall).from = <<0, 0>>
    /\ Unwrap(toolCall).new = RedCell
    /\ toolGrid.cells[<<1, 0>>] = RedCell
    /\ toolGrid.cells[<<0, 1>>] = RedCell
    /\ toolGrid.cells[<<1, 1>>] = EmptyCell
    /\ MutationPlaces(Unwrap(toolOut).value) = {<<0, 0>>}

\* C23 (flood fill completeness): on every grid, flood_fill from a seed in
\* the grid whose value differs from the new cell returns a mutation for
\* every cell 4-connected to the seed through cells equal to the seed's
\* value; on an empty W x H grid the result has W * H mutations.
C23_FloodFillFillsRegion ==
    (/\ Returned("flood_fill")
     /\ InGrid(toolGrid, Unwrap(toolCall).from)
     /\ toolGrid.cells[Unwrap(toolCall).from] # Unwrap(toolCall).new)
        => /\ Unwrap(toolOut).ok
           /\ ConnectedTo(toolGrid, Unwrap(toolCall).from)
                  \subseteq MutationPlaces(Unwrap(toolOut).value)
           /\ (\A p \in Coords(toolGrid.width, toolGrid.height) :
                   toolGrid.cells[p] = EmptyCell)
                  => Len(Unwrap(toolOut).value)
                         = toolGrid.width * toolGrid.height

\* The cells of the grid a rectangle between two corners covers: the whole
\* box when filled, else the cells on its four sides.
RectanglePlaces(c, a, b, filled) ==
    {p \in Coords(c.width, c.height) :
        /\ Min(a[1], b[1]) <= p[1] /\ p[1] <= Max(a[1], b[1])
        /\ Min(a[2], b[2]) <= p[2] /\ p[2] <= Max(a[2], b[2])
        /\ \/ filled
           \/ p[1] = Min(a[1], b[1]) \/ p[1] = Max(a[1], b[1])
           \/ p[2] = Min(a[2], b[2]) \/ p[2] = Max(a[2], b[2])}

\* C24 (rectangle coverage): for two corners in any order, rectangle
\* returns mutations exactly for the cells of the grid that lie on the
\* sides of the normalized box (outline) or anywhere in it (filled) and
\* differ from the new cell; swapping the corners gives the same set.
C24_RectangleCoversBox ==
    Returned("rectangle") =>
        LET a == Unwrap(toolCall).from
            b == Unwrap(toolCall).to
            new == Unwrap(toolCall).new
            filled == Unwrap(toolCall).filled
            ms == Unwrap(toolOut).value
        IN /\ Unwrap(toolOut).ok
           /\ MutationPlaces(ms)
                  = {p \in RectanglePlaces(toolGrid, a, b, filled) :
                        toolGrid.cells[p] # new}
           /\ NoPlaceTwice(ms)
           /\ MutationPlaces(rectangle(toolGrid, b[1], b[2], a[1], a[2],
                                       new.ch, new.fg, new.bg, filled))
                  = MutationPlaces(ms)

\* C24 witness: an outline drawn from the lower right corner to the upper
\* left one over a box three cells wide that reaches past the grid.
C24_Witness ==
    /\ Returned("rectangle")
    /\ Unwrap(toolCall).from = <<2, 1>>
    /\ Unwrap(toolCall).to = <<0, 0>>
    /\ ~Unwrap(toolCall).filled
    /\ Unwrap(toolOut).value # <<>>

\* The mutations are well formed on the grid: in bounds, `old` the grid's
\* cell, `new` another cell.
WellFormed(c, ms) ==
    \A i \in 1..Len(ms) :
        /\ InGrid(c, <<ms[i].x, ms[i].y>>)
        /\ ms[i].old = c.cells[<<ms[i].x, ms[i].y>>]
        /\ ms[i].new # ms[i].old

\* C27 (tool output well formed): every mutation returned by pencil,
\* eraser, line, rectangle and flood_fill has in-bounds coordinates, `old`
\* equal to the grid's cell there and `new` different from `old`; the call
\* does not modify the grid, and out-of-range cells of a line or rectangle
\* are skipped without error.
C27_ToolOutputWellFormed ==
    /\ [](toolOut # None =>
            /\ Unwrap(toolOut).ok
            /\ WellFormed(toolGrid, Unwrap(toolOut).value))
    /\ [][toolGrid' = toolGrid]_vars

\* The grid that holds the operations of the active entries and no other:
\* the entries below the pointer applied in order to the grid made by `new`.
GridOfLog(file) ==
    ApplyEntriesNew(NewCanvas(GridW, GridH), active_entries(file).value, 1)

\* C26 (log and grid consistent): after any CLI draw, undo or redo
\* invocation, whether it completed, failed, or was killed between writing
\* the log and renaming the grid file, the entries below the pointer are
\* exactly the operations reflected in the saved grid, and the entries from
\* the pointer on are not reflected in it.
C26_LogMatchesGrid ==
    (/\ run = None
     /\ nCorrupt = 0
     /\ WholeLog(disk[log_path(ProjectPath)]))
        => load_project(disk[ProjectPath])
               = Ok(GridOfLog(disk[log_path(ProjectPath)]))

\* The first and the last mutation of a list at the place of its i-th.
FirstAt(muts, i) ==
    muts[CHOOSE j \in 1..Len(muts) :
            /\ muts[j].x = muts[i].x /\ muts[j].y = muts[i].y
            /\ \A k \in 1..(j - 1) : muts[k].x # muts[i].x \/ muts[k].y # muts[i].y]

LastAt(muts, i) ==
    muts[CHOOSE j \in 1..Len(muts) :
            /\ muts[j].x = muts[i].x /\ muts[j].y = muts[i].y
            /\ \A k \in (j + 1)..Len(muts) :
                   muts[k].x # muts[i].x \/ muts[k].y # muts[i].y]

\* Some place occurs twice in the list, with different `old` values.
Overlapping(muts) ==
    \E i, j \in 1..Len(muts) :
        /\ i < j
        /\ muts[i].x = muts[j].x /\ muts[i].y = muts[j].y
        /\ muts[i].old # muts[j].old

\* C28 (undo inverts overlapping mutations): for a CellChange in which the
\* same coordinate occurs in several mutations, undo leaves the cell
\* holding the `old` of the first of them, and redo leaves it holding the
\* `new` of the last.
C28_OverlapsInvert ==
    [][/\ (last'.op = "undo" /\ last'.ret
              /\ Last(history.undo_stack).kind = "CellChange")
          => LET muts == Last(history.undo_stack).mutations
             IN \A i \in 1..Len(muts) :
                    InGrid(canvas', <<muts[i].x, muts[i].y>>)
                        => canvas'.cells[<<muts[i].x, muts[i].y>>]
                               = FirstAt(muts, i).old
       /\ (last'.op = "redo" /\ last'.ret
              /\ Last(history.redo_stack).kind = "CellChange")
          => LET muts == Last(history.redo_stack).mutations
             IN \A i \in 1..Len(muts) :
                    InGrid(canvas', <<muts[i].x, muts[i].y>>)
                        => canvas'.cells[<<muts[i].x, muts[i].y>>]
                               = LastAt(muts, i).new]_vars

\* C28 witness: a stroke that painted and erased one cell has been undone;
\* the cell holds what it held before the stroke.
C28_Witness ==
    /\ last.op = "undo" /\ last.ret
    /\ history.redo_stack # <<>>
    /\ Last(history.redo_stack).kind = "CellChange"
    /\ Overlapping(Last(history.redo_stack).mutations)
    /\ LET muts == Last(history.redo_stack).mutations
       IN canvas.cells[<<muts[1].x, muts[1].y>>] = muts[1].old

\* C30 (empty actions never committed): commit(CellChange([])) and
\* end_stroke with an empty pending list leave both the undo stack and the
\* redo stack unchanged (the redo stack is not cleared), and end_stroke
\* leaves no stroke pending whether or not it committed.
C30_EmptyNeverCommitted ==
    /\ [](/\ commit(history, CellChange(<<>>)) = history
          /\ end_stroke(history).pending = None
          /\ history.pending = Some(<<>>)
                => /\ end_stroke(history).undo_stack = history.undo_stack
                   /\ end_stroke(history).redo_stack = history.redo_stack)
    /\ [][last'.op = "up"
            => /\ history'.pending = None
               /\ history.pending = Some(<<>>)
                    => /\ history'.undo_stack = history.undo_stack
                       /\ history'.redo_stack = history.redo_stack]_vars

\* C30 witness: a stroke that changed nothing has ended while an undone
\* action waits on the redo stack; it is still there, and nothing is pending.
C30_Witness ==
    /\ last.op = "up"
    /\ last.commits = 0
    /\ history.pending = None
    /\ history.redo_stack # <<>>
    /\ last.redoBefore = Len(history.redo_stack)

\* C29 (mixed history of cell changes and snapshots): for any interleaving
\* of committed CellChange actions and CanvasSnapshot actions (resizes),
\* undoing all of them in order restores the original grid dimensions and
\* every original cell, and each undo of a CanvasSnapshot replaces the grid
\* wholesale with the stored old dimensions and cells.
C29_MixedHistoryRestores ==
    /\ []((/\ shape \in {"undos", "undosR"}
           /\ last.op = "undo" /\ ~last.ret
           /\ nCommits <= MAX_HISTORY)
             => canvas = canvas0)
    /\ [][(last'.op = "undo" /\ last'.ret
              /\ Last(history.undo_stack).kind = "CanvasSnapshot")
            => canvas' = [width |-> Last(history.undo_stack).old_w,
                          height |-> Last(history.undo_stack).old_h,
                          cells |-> Last(history.undo_stack).old_cells]]_vars

\* Both invocations have exited.
BothFinished == \A p \in Procs : procs[p].pc = "done"

\* C25 (concurrent invocations are last-writer-wins): the project file is
\* never missing, and once two concurrent invocations have both finished
\* the project file is exactly the complete grid written by the invocation
\* whose rename came last, never a mixture of the two writers' pieces.
C25_LastWriterWins ==
    /\ names[ProjectPath] # None
    /\ (BothFinished /\ renamed # <<>>)
         => FileAt(ProjectPath) = save_to_file(procs[Last(renamed)].written)

\* C31 (begin_stroke auto-close): when begin_stroke is called while a stroke
\* with one or more pending mutations is active, those mutations are
\* committed as one CellChange on top of the undo stack, none of them is
\* lost or carried into the new stroke, and a fresh stroke is active that
\* holds only what is pushed afterwards.
C31_BeginStrokeAutoCloses ==
    [][(/\ last'.op = "down"
        /\ history.pending # None
        /\ Unwrap(history.pending) # <<>>)
         => /\ history'.undo_stack =
                 Append(history.undo_stack, CellChange(Unwrap(history.pending)))
            /\ history'.pending # None
            /\ \E tool \in Tools, p \in PenPoints, sym \in AppSymmetry :
                 Unwrap(history'.pending) =
                     Resample(canvas, Recorded(canvas, tool, p[1], p[2], sym))]_vars

\* A mouse-down arrived while a stroke held mutations, and the new stroke
\* holds a mutation of its own.
C31_Witness ==
    /\ last.op = "down" /\ last.commits = 1
    /\ history.pending # None /\ Unwrap(history.pending) # <<>>
    /\ Len(history.undo_stack) = 1

\* C32 (undo and redo change only the log pointer): pop_for_undo and
\* push_for_redo, when they succeed, leave the entries of the log (their
\* timestamps, commands, mutation lists, order and count) and the header's
\* total exactly as they were; only the pointer changes.
C32_OnlyPointerChanges ==
    run = None =>
        With(disk[log_path(ProjectPath)], LAMBDA file :
            \A count \in 1..MaxCount :
                \A r \in {pop_for_undo(file, count), push_for_redo(file, count)} :
                    r.result.ok
                      => /\ Log(r.file).entries = Log(file).entries
                         /\ Log(r.file).header.total = Log(file).header.total)

\* The coordinate lies outside the grid.
OffGrid(p, c) == p[1] >= c.width \/ p[2] >= c.height

\* C33 (rejected coordinates change nothing): a `draw pencil`, `draw fill`
\* or single-cell `draw eraser` whose coordinate lies outside the grid fails
\* (non-zero exit) and leaves the project file and the operation log as
\* they were.
C33_RejectedDrawChangesNothing ==
    [][(asked' # None /\ nDraws' = nDraws + 1
          /\ OffGrid(Unwrap(asked').at, project))
         => /\ ~cliLast'.ok
            /\ project' = project
            /\ logfile' = logfile]_vars

\* A fill off the grid was refused on a project that earlier draws had
\* changed and logged.
C33_Witness ==
    /\ asked # None
    /\ Unwrap(asked).tool = "fill"
    /\ OffGrid(Unwrap(asked).at, project)
    /\ ~cliLast.ok
    /\ project # NewCanvas(GridW, GridH)
    /\ Log(logfile).header.total > 0

\* C34 (an explicit save removes the autosave): after every successful
\* explicit save (save_project, also through save_as on a project that had
\* no path) no autosave file this session wrote remains on disk, dirty is
\* false and the auto-save tick counter is 0.
C34_SaveRemovesAutosave ==
    [][((KeySave \/ SaveAsEnter) /\ saveLast'.ok)
         => /\ \A f \in autosaved' : ~stored'[f].exists
            /\ ~dirty'
            /\ session'.auto_save_ticks = 0]_vars

\* C35: in the interactive session a completed line, rectangle or flood
\* fill that changes cells adds exactly one action to the undo stack, and
\* an undo that follows it puts back the grid the click found.
C35_OneClickOneAction ==
    /\ [][(MouseClick /\ last'.op = "click" /\ last'.ret)
            => Len(history'.undo_stack) = Len(history.undo_stack) + 1]_vars
    /\ [][(KeyUndo /\ last.op = "click" /\ last.ret /\ last'.ret)
            => canvas' = Unwrap(strokeStart)]_vars

\* C36: whatever the order of begin_stroke, push_mutation, end_stroke, undo
\* and redo, an undo or a redo in the middle of a stroke included, with
\* fewer than MAX_HISTORY commits: once no stroke is pending and undo has
\* returned false, the grid is the initial grid.
C36_InversionAnyInterleaving ==
    (/\ last.op = "undo" /\ ~last.ret
     /\ history.pending = None
     /\ nCommits < MAX_HISTORY)
        => canvas = canvas0

\* How many undos in a row the round trip of C37 is tried with.
MaxBack == 2

RECURSIVE UndoTimes(_, _)
\* k calls of History::undo in a row.
UndoTimes(r, k) ==
    IF k = 0 THEN r ELSE UndoTimes(undo(r.history, r.canvas), k - 1)

RECURSIVE RedoTimes(_, _)
\* k calls of History::redo in a row.
RedoTimes(r, k) ==
    IF k = 0 THEN r ELSE RedoTimes(redo(r.history, r.canvas), k - 1)

\* C37: a successful undo moves the top action of the undo stack to the top
\* of the redo stack and a successful redo moves it back; k undos followed
\* by k redos leave both stacks as they were; and the two stacks never hold
\* more than MAX_HISTORY actions between them.
C37_ActionsConserved ==
    /\ [](Len(history.undo_stack) + Len(history.redo_stack) <= MAX_HISTORY)
    /\ [](\A k \in 1..Min(MaxBack, Len(history.undo_stack)) :
            LET here == [history |-> history, canvas |-> canvas, ret |-> TRUE]
                back == RedoTimes(UndoTimes(here, k), k)
            IN /\ back.ret
               /\ back.history.undo_stack = history.undo_stack
               /\ back.history.redo_stack = history.redo_stack)
    /\ [][(KeyUndo /\ last'.ret)
            => /\ history'.undo_stack = Front(history.undo_stack)
               /\ history'.redo_stack
                    = Append(history.redo_stack, Last(history.undo_stack))]_vars
    /\ [][(KeyRedo /\ last'.ret)
            => /\ history'.redo_stack = Front(history.redo_stack)
               /\ history'.undo_stack
                    = Append(history.undo_stack, Last(history.redo_stack))]_vars

\* C37 witness: the history was filled to the cap, several actions were
\* undone and one of them has just been redone.
C37_Witness ==
    /\ last.op = "redo" /\ last.ret
    /\ history.redo_stack # <<>>
    /\ Len(history.undo_stack) + Len(history.redo_stack) = MAX_HISTORY
    /\ nCommits > MAX_HISTORY

\* A CLI draw that ran to its end without logging: --no-log, or no mutation.
UnloggedDraw ==
    /\ nDraws' = nDraws + 1
    /\ cliLast'.op = "draw" /\ cliLast'.ok
    /\ cliLast'.no_log \/ cliLast'.returned = <<>>

\* C38: a CLI draw with --no-log, and a CLI draw that produces no mutation,
\* leave the log file as it was, line for line, so pointer, total and
\* entries are unchanged and the undone entries can still be redone; the
\* --no-log draw's mutations are saved to the project grid.
C38_UnloggedDrawKeepsLog ==
    [][UnloggedDraw
        => /\ logfile' = logfile
           /\ project' = ApplyNew(project, cliLast'.returned, 1)
           /\ cliLast'.returned # <<>> => project' # project]_vars

\* C38 witness: a --no-log draw has just changed the grid while the log
\* holds an undone entry, which is still there to redo.
C38_Witness ==
    /\ cliLast.op = "draw" /\ cliLast.ok /\ cliLast.no_log
    /\ cliLast.returned # <<>>
    /\ With(Log(logfile).header, LAMBDA h : h.pointer < h.total)
    /\ push_for_redo(logfile, 1).result.ok

\* The entry lines a log file holds after its first line.
EntryLineCount(file) ==
    Len(SelectSeq(Tail(file.lines), LAMBDA l : l.kind = "entry"))

\* The header's total is the number of entry lines after it.
TotalMatchesLines(file) ==
    /\ file.exists /\ file.lines # <<>> /\ Head(file.lines).kind = "header"
    /\ Head(file.lines).header.total = EntryLineCount(file)
    /\ Len(file.lines) = 1 + EntryLineCount(file)

\* C39: after init_log and after every append, pop_for_undo and
\* push_for_redo, the header's total is the number of entry lines that follow
\* the header in the file, and that number is at most MAX_LOG_ENTRIES.
C39_TotalMatchesFile ==
    /\ TotalMatchesLines(logfile)
    /\ EntryLineCount(logfile) <= MAX_LOG_ENTRIES

\* C39 witness: more draws were logged than the log keeps, the file holds
\* MAX_LOG_ENTRIES entry lines, and an undo and a redo have rewritten it.
C39_Witness ==
    /\ nAppends > MAX_LOG_ENTRIES
    /\ EntryLineCount(logfile) = MAX_LOG_ENTRIES
    /\ Head(logfile.lines).header.total = MAX_LOG_ENTRIES
    /\ cliLast.op = "redo" /\ cliLast.ok
    /\ Head(logfile.lines).header.pointer < MAX_LOG_ENTRIES

====
